---------------------------- MODULE Spec2Model ----------------------------
(***************************************************************************)
(* Terrarium monitor: the sensor agent's polling loop (agent/agent.py) and *)
(* the backend's ingestion and query API (backend/api.py, backend/db.py).  *)
(*                                                                         *)
(* Agent time is counted in half seconds, so that the 0.5 s sleep floor of *)
(* poll_loop is the integer 1 and an interval of s seconds is 2 * s.       *)
(***************************************************************************)
EXTENDS Integers, Sequences, FiniteSets, Bags, TLC

NoneVal == "None"

Max(a, b) == IF a >= b THEN a ELSE b
Min(a, b) == IF a <= b THEN a ELSE b

RECURSIVE SeqMin(_)
SeqMin(s) == IF Len(s) = 1 THEN s[1] ELSE Min(s[1], SeqMin(Tail(s)))

(***************************************************************************)
(* Bounds of the model.                                                    *)
(***************************************************************************)
MaxTasks == 2        \* sensors in the agent's configuration
MaxClock == 6        \* the agent's clock stops advancing here (half seconds)

\* Half seconds a sensor read, a post or a build step may take, and half
\* seconds the process may be suspended on top of a sleep.
Delays == {0, 1}
Oversleeps == {0, 4}

(***************************************************************************)
(* Program constants of agent.py.                                          *)
(***************************************************************************)
SleepFloor == 1      \* max(0.5, ...) in half seconds
IdleSleep == 2       \* the 1.0 s sleep of an empty task list, in half seconds

HalfSec(sec) == 2 * sec

\* interval_sec values a configuration may carry (int(config["interval_sec"]))
Intervals == {-1, 0, 1, 2}

\* What one pass of the try block of poll_loop does for a due task.
\*   ok          read() returned readings and post_readings returned
\*   empty       read() returned [] (nothing is posted)
\*   read_raises read() raised
\*   post_fails  post_readings raised (transport error, timeout, 4xx/5xx)
Outcomes == {"ok", "empty", "read_raises", "post_fails"}
Failures == {"read_raises", "post_fails"}

VARIABLES
    \* ---- agent (agent/agent.py) ----
    clock,       \* time.time(), in half seconds
    tasks,       \* List[SensorTask]: records [interval_sec, next_run]
    pcA,         \* "build" | "top" | "loop" | "crashed"
    now,         \* poll_loop's local now of the current tick
    idx,         \* position of the for loop over tasks
    next_times,  \* poll_loop's local list next_times
    sleep_for,   \* the last computed sleep_for (0 before the first)
    tickNo,      \* ticks started so far
    dueAt,       \* history: per task, next_run <= now at the start of this tick
    prevRun,     \* history: per task, next_run at the start of this tick
    reads,       \* history: per task, sensor.read() calls in this tick
    outcome,     \* history: per task, outcome of its try block in this tick
    posts,       \* history: per task, post_readings calls in this tick
    got,         \* history: per task, what read() returned in this tick
    sent,        \* history: per task, the payloads posted in this tick
    polls,       \* history: per task, sensor.read() calls since start
    lastPoll,    \* history: per task, now of its last poll (-1: never)
    failedEver,  \* history: some try block has failed since start
    \* ---- backend (backend/api.py, backend/db.py, backend/models.py) ----
    sensors,      \* table sensors, committed: sequence of rows, id = position
    measurements, \* table measurements, committed: bag of rows
    pcB,          \* "idle" | "ingest" (inside post_measurements) | "done"
    session,      \* the request's Session: rows flushed or added, not committed
    created,      \* post_measurements' local counter
    resp,         \* the response of the request that has just ended
    batch,        \* history: the readings of the request consumed so far
    pre,          \* history: the committed tables when the request began
    alert_rules,  \* table alert_rules, committed: sequence of rows
    \* ---- backend, two requests served at the same time ----
    reqs,         \* per request: its position, readings, session, response
    lock          \* the request that holds SQLite's write lock, or 0

agentVars == <<clock, tasks, pcA, now, idx, next_times, sleep_for, tickNo,
               dueAt, prevRun, reads, outcome, posts, got, sent, polls,
               lastPoll, failedEver>>

backendVars == <<sensors, measurements, pcB, session, created, resp, batch,
                 pre, alert_rules>>

raceVars == <<reqs, lock>>

vars == <<agentVars, backendVars, raceVars>>

(***************************************************************************)
(* agent.py                                                                *)
(***************************************************************************)

\* SensorTask(sensor=sensor, next_run=time.time())
NewTask(interval_sec, t) == [interval_sec |-> interval_sec, next_run |-> t]

\* if now >= task.next_run
IsDueStrict(task, t) == t > task.next_run
IsDue(task, t) == t >= task.next_run

\* task.next_run = now + task.sensor.interval_sec, after the try/except:
\* the outcome of the try block plays no part.
AdvanceOnSuccessOnly(task, t, o) ==
    IF o \in Failures THEN task.next_run ELSE t + HalfSec(task.interval_sec)
AdvanceFromPrevious(task, t, o) == task.next_run + HalfSec(task.interval_sec)
Advance(task, t, o) == t + HalfSec(task.interval_sec)

\* except Exception: every failure of read() or post_readings is caught.
CaughtReadOnly(o) == o = "read_raises"
Caught(o) == o \in Failures

\* readings = task.sensor.read(): the list a read returns; it is empty when
\* the configured metrics leave the sensor nothing to report.
ReadResult(o) ==
    IF o \in {"ok", "post_fails"} THEN <<"temperature", "humidity">> ELSE <<>>

\* payload = {"readings": [reading.__dict__ for reading in readings]}
PayloadFirstOnly(readings) == [readings |-> <<readings[1]>>]
Payload(readings) ==
    [readings |-> [i \in 1..Len(readings) |-> readings[i]]]

\* if readings: post_readings(...): posts made by one try block.
PostsWithRetry(o) ==
    IF o = "ok" THEN 1 ELSE IF o = "post_fails" THEN 2 ELSE 0
PostsOf(o) == IF o \in {"ok", "post_fails"} THEN 1 ELSE 0

\* sleep_for = max(0.5, min(next_times) - time.time()) if next_times else 1.0
SleepForNoFloor(times, t) ==
    IF Len(times) > 0 THEN SeqMin(times) - t ELSE IdleSleep
SleepForHalfway(times, t) ==
    IF Len(times) > 0 THEN Max(SleepFloor, (SeqMin(times) - t) \div 2)
    ELSE IdleSleep
SleepFor(times, t) ==
    IF Len(times) > 0 THEN Max(SleepFloor, SeqMin(times) - t) ELSE IdleSleep

TaskIds == 1..Len(tasks)

\* build_tasks: one SensorTask per configured sensor, due at construction time.
BuildTask(interval_sec, d) ==
    /\ pcA = "build"
    /\ tasks' = Append(tasks, NewTask(interval_sec, clock))
    /\ clock' = clock + d
    /\ dueAt' = Append(dueAt, FALSE)
    /\ prevRun' = Append(prevRun, clock)
    /\ reads' = Append(reads, 0)
    /\ outcome' = Append(outcome, NoneVal)
    /\ posts' = Append(posts, 0)
    /\ got' = Append(got, <<>>)
    /\ sent' = Append(sent, <<>>)
    /\ polls' = Append(polls, 0)
    /\ lastPoll' = Append(lastPoll, -1)
    /\ UNCHANGED <<pcA, now, idx, next_times, sleep_for, tickNo, failedEver>>

\* poll_loop, top of the while loop: now = time.time(); next_times = [].
\* The first tick follows build_tasks.
TickStart ==
    /\ pcA \in {"build", "top"}
    /\ pcA' = "loop"
    /\ now' = clock
    /\ next_times' = <<>>
    /\ idx' = 1
    /\ tickNo' = tickNo + 1
    /\ dueAt' = [i \in TaskIds |-> tasks[i].next_run <= clock]
    /\ prevRun' = [i \in TaskIds |-> tasks[i].next_run]
    /\ reads' = [i \in TaskIds |-> 0]
    /\ outcome' = [i \in TaskIds |-> NoneVal]
    /\ posts' = [i \in TaskIds |-> 0]
    /\ got' = [i \in TaskIds |-> <<>>]
    /\ sent' = [i \in TaskIds |-> <<>>]
    /\ UNCHANGED <<clock, tasks, sleep_for, polls, lastPoll, failedEver>>

\* One iteration of "for task in tasks": the due task is read once, its
\* readings posted, every Exception logged, and next_run advanced; the
\* call takes d half seconds.
ProcessTask(o, d) ==
    /\ pcA = "loop"
    /\ idx <= Len(tasks)
    /\ IF IsDue(tasks[idx], now)
       THEN /\ reads' = [reads EXCEPT ![idx] = @ + 1]
            /\ polls' = [polls EXCEPT ![idx] = @ + 1]
            /\ lastPoll' = [lastPoll EXCEPT ![idx] = now]
            /\ outcome' = [outcome EXCEPT ![idx] = o]
            /\ posts' = [posts EXCEPT ![idx] = @ + PostsOf(o)]
            /\ got' = [got EXCEPT ![idx] =
                          IF o = "read_raises" THEN <<>>
                          ELSE <<ReadResult(o)>>]
            /\ sent' = [sent EXCEPT ![idx] =
                           @ \o [k \in 1..PostsOf(o) |->
                                   Payload(ReadResult(o))]]
            /\ failedEver' = (failedEver \/ o \in Failures)
            /\ clock' = clock + d
            /\ IF o \in Failures /\ ~Caught(o)
               THEN /\ pcA' = "crashed"
                    /\ UNCHANGED <<tasks, next_times, idx>>
               ELSE /\ tasks' = [tasks EXCEPT ![idx].next_run =
                                     Advance(tasks[idx], now, o)]
                    /\ next_times' =
                         Append(next_times, Advance(tasks[idx], now, o))
                    /\ idx' = idx + 1
                    /\ UNCHANGED pcA
       ELSE /\ o = "empty" /\ d = 0
            /\ next_times' = Append(next_times, tasks[idx].next_run)
            /\ idx' = idx + 1
            /\ UNCHANGED <<tasks, pcA, clock, reads, polls, lastPoll,
                           outcome, posts, got, sent, failedEver>>
    /\ UNCHANGED <<now, sleep_for, tickNo, dueAt, prevRun>>

\* End of the tick: sleep_for is computed from a fresh time.time() and the
\* process sleeps; it may be suspended for extra half seconds on top.
Sleep(extra) ==
    /\ pcA = "loop"
    /\ idx > Len(tasks)
    /\ sleep_for' = SleepFor(next_times, clock)
    /\ clock' = clock + SleepFor(next_times, clock) + extra
    /\ pcA' = "top"
    /\ UNCHANGED <<tasks, now, idx, next_times, tickNo, dueAt, prevRun,
                   reads, outcome, posts, got, sent, polls, lastPoll,
                   failedEver>>

(***************************************************************************)
(* backend: the values a request may carry                                 *)
(***************************************************************************)
MaxStore == 3        \* rows of table measurements
MaxBatch == 2        \* readings in one POST /api/measurements
MaxAlerts == 1       \* rows of table alert_rules

\* api.py: limit = min(int(request.args.get("limit", 1440)), 10000)
DefaultLimit == 1440
HardLimit == 10000

\* The seeded sensor (seed.py DEFAULT_SENSORS) and a key no sensor has yet.
SeededKey == "amb"
Keys == {SeededKey, "new_dev"}
Metrics == {"m1", "m2"}
Times == 1..3        \* instants, UTC

SeedSensor ==
    [key |-> SeededKey, name |-> "Ambient Air", model |-> "BME280",
     location |-> "Upper canopy", poll_interval_sec |-> 60]

\* data["sensor_key"].replace("_", " ").title()
DefaultName(key) ==
    CASE key = "amb" -> "Amb"
      [] key = "new_dev" -> "New Dev"
      [] OTHER -> key

\* A timestamp as a request carries it: absent, the empty string, an ISO 8601
\* string of a local time with or without a UTC offset, a string that is no
\* timestamp, or a JSON number.
NoTime == [kind |-> "none", local |-> 0, tz |-> FALSE, off |-> 0]
EmptyTime == [kind |-> "empty", local |-> 0, tz |-> FALSE, off |-> 0]
BadTime == [kind |-> "bad", local |-> 0, tz |-> FALSE, off |-> 0]
NumberTime == [kind |-> "number", local |-> 0, tz |-> FALSE, off |-> 0]
Naive(t) == [kind |-> "iso", local |-> t, tz |-> FALSE, off |-> 0]
Offset(t, o) == [kind |-> "iso", local |-> t, tz |-> TRUE, off |-> o]

\* not value, for a string or None
Falsy(x) == x \in {NoneVal, ""}

\* A float: a finite number, infinity or NaN
Finite(n) == [cls |-> "finite", num |-> n]
PosInf == [cls |-> "inf", num |-> 0]
NaN == [cls |-> "nan", num |-> 0]

\* float(value) of a JSON value, written as its text: the numbers 0 and 5,
\* and "inf" and "nan" (the strings, or the literals Infinity and NaN that
\* json.loads reads), which float() takes as well
FloatTexts == {"0", "5", "inf", "nan"}
FloatOf(v) ==
    CASE v = "0" -> Finite(0)
      [] v = "5" -> Finite(5)
      [] v = "inf" -> PosInf
      [] OTHER -> NaN

\* int(text) of a query parameter
IntTexts == {"-1", "0", "1", "2", "20000"}
IntOf(v) ==
    CASE v = "-1" -> -1
      [] v = "0" -> 0
      [] v = "1" -> 1
      [] v = "2" -> 2
      [] OTHER -> 20000

(***************************************************************************)
(* backend/utils.py                                                        *)
(***************************************************************************)

\* parse_iso8601: fromisoformat, a missing tzinfo read as UTC, astimezone(UTC)
ParseIsoKeepLocal(v) == v.local
ParseIso8601(v) == IF v.tz THEN v.local - v.off ELSE v.local

\* What parse_iso8601(value) raises: nothing, ValueError (not a timestamp)
\* or AttributeError (value.replace on a value that is no string).
ParseIsoError(v) ==
    CASE v.kind = "iso" -> "none"
      [] v.kind = "number" -> "AttributeError"
      [] OTHER -> "ValueError"

(***************************************************************************)
(* backend/api.py: ingestion                                               *)
(***************************************************************************)

\* normalize_reading: "ValueError", "AttributeError" or "none" (it returns)
NormalizeError(reading) ==
    CASE reading.json # "object" -> "AttributeError"
      [] \/ Falsy(reading.sensor_key) \/ Falsy(reading.metric)
         \/ reading.value = NoneVal \/ reading.unit = NoneVal -> "ValueError"
      [] reading.value \notin FloatTexts -> "ValueError"
      [] reading.recorded_at.kind \in {"none", "empty"} -> "none"
      [] OTHER -> ParseIsoError(reading.recorded_at)

\* normalize_reading's result; utc_now is what utcnow() returns
NormalizeReading(reading, utc_now) ==
    [sensor_key |-> reading.sensor_key,
     sensor_name |-> reading.sensor_name,
     sensor_model |-> reading.sensor_model,
     sensor_location |-> reading.sensor_location,
     poll_interval_sec |-> reading.poll_interval_sec,
     metric |-> reading.metric,
     value |-> FloatOf(reading.value),
     unit |-> reading.unit,
     recorded_at |-> IF reading.recorded_at.kind \in {"none", "empty"}
                     THEN utc_now
                     ELSE ParseIso8601(reading.recorded_at)]

\* session.query(Sensor).filter(Sensor.key == key).one_or_none(): its id, or 0
SensorIdOf(rows, key) ==
    IF \E i \in 1..Len(rows) : rows[i].key = key
    THEN CHOOSE i \in 1..Len(rows) : rows[i].key = key
    ELSE 0

\* Sensor(key=..., name=..., model=..., location=..., poll_interval_sec=...)
NewSensor(data) ==
    [key |-> data.sensor_key,
     name |-> IF Falsy(data.sensor_name)
              THEN DefaultName(data.sensor_key) ELSE data.sensor_name,
     model |-> data.sensor_model,
     location |-> data.sensor_location,
     poll_interval_sec |-> IF data.poll_interval_sec \in {<<>>, <<0>>}
                           THEN 60 ELSE data.poll_interval_sec[1]]

AlwaysCreateSensor(visible, flushed, data) ==
    Append(flushed, NewSensor(data))

\* get_or_create_sensor: the rows the session has flushed after the call
\* (visible: the committed rows followed by the session's flushed ones)
UpsertSensor(visible, flushed, data) ==
    IF SensorIdOf(visible, data.sensor_key) # 0
    THEN [i \in 1..Len(flushed) |->
            IF flushed[i].key = data.sensor_key THEN NewSensor(data)
            ELSE flushed[i]]
    ELSE Append(flushed, NewSensor(data))
FlushedAfterGetOrCreate(visible, flushed, data) ==
    IF SensorIdOf(visible, data.sensor_key) # 0
    THEN flushed
    ELSE Append(flushed, NewSensor(data))

\* Measurement(sensor_id=sensor.id, metric=..., value=..., unit=..., recorded_at=...)
NewMeasurement(sensor_id, data) ==
    [sensor_id |-> sensor_id, metric |-> data.metric, value |-> data.value,
     unit |-> data.unit, recorded_at |-> data.recorded_at]

RECURSIVE SeqToBag(_)
SeqToBag(s) ==
    IF s = <<>> THEN EmptyBag ELSE SetToBag({s[1]}) (+) SeqToBag(Tail(s))

EmptySession == [sensors |-> <<>>, measurements |-> <<>>]

Tables(sn, ms) == [sensors |-> sn, measurements |-> ms]

\* session.commit(): the flushed sensors and the added measurements persist
CommitAllButLast(sn, ms, sess) ==
    Tables(sn \o sess.sensors,
           ms (+) SeqToBag(SubSeq(sess.measurements, 1,
                                  Len(sess.measurements) - 1)))
CommitReplacing(sn, ms, sess) ==
    Tables(sn \o sess.sensors, SeqToBag(sess.measurements))
CommitMeasurementsOnly(sn, ms, sess) ==
    Tables(sn, ms (+) SeqToBag(sess.measurements))
Commit(sn, ms, sess) ==
    Tables(sn \o sess.sensors, ms (+) SeqToBag(sess.measurements))

\* session.flush() of the pending rows: SQLite binds a NaN as NULL, and
\* measurements.value is NOT NULL, so the INSERT raises IntegrityError
FlushRaises(sess) ==
    \E i \in 1..Len(sess.measurements) : sess.measurements[i].value = NaN

\* session_scope: commit when the with block is left without an exception
\* (a return inside the block leaves it that way), rollback when it raises
\* or when the commit's flush raises
SessionScopeKeepsFlushed(sn, ms, sess, raised) ==
    IF raised \/ FlushRaises(sess) THEN Tables(sn \o sess.sensors, ms)
    ELSE Commit(sn, ms, sess)
SessionScopeExit(sn, ms, sess, raised) ==
    IF raised \/ FlushRaises(sess) THEN Tables(sn, ms)
    ELSE Commit(sn, ms, sess)

\* request.args of a query that sent none of its parameters
NoQuery ==
    [sensor_key |-> NoneVal, metric |-> NoneVal, start |-> NoTime,
     end |-> NoTime, limit |-> NoneVal, order |-> NoneVal]

\* A response: the handler that sent it, its status, and its JSON fields;
\* order and query are history, the parameters the request came with.
\* summary is the "sensors" list of GET /api/summary, scanned (history)
\* the rows its query read, limit (history) its limit parameter; sensors is
\* the list of GET /api/sensors, created and alerts the fields of the
\* responses of POST and GET /api/alerts, body (history) the shape of the
\* body of a POST /api/measurements that was answered before its loop.
\* The body of a request that is no POST /api/alerts
NoAlertPayload ==
    [json |-> "none", metric |-> NoneVal, channel |-> NoneVal,
     target |-> NoneVal, min_value |-> NoneVal, max_value |-> NoneVal,
     enabled |-> TRUE]

NoResp ==
    [req |-> "none", status |-> 0, ingested |-> 0, measurements |-> <<>>,
     order |-> NoneVal, query |-> NoQuery, summary |-> <<>>,
     scanned |-> <<>>, limit |-> NoneVal, sensors |-> <<>>,
     created |-> FALSE, alerts |-> <<>>, body |-> NoneVal,
     payload |-> NoAlertPayload]
ErrorResp(req, status) == [NoResp EXCEPT !.req = req, !.status = status]

\* jsonify({"ingested": created})
IngestedCount(n) == n

\* post_measurements, the checks before the session opens. body is what the
\* request holds: no JSON, a JSON array (empty or not), a JSON string, or an
\* object whose readings are absent, not a list, or an empty list.
BodyShapes ==
    {"no_json", "json_array", "json_empty_array", "json_string",
     "readings_missing", "readings_not_list", "readings_empty"}

\* payload = request.get_json(silent=True) or {}; payload.get("readings"):
\* a body that is true and no object has no get
BodyError(body) ==
    IF body \in {"json_array", "json_string"} THEN "AttributeError"
    ELSE "none"

PostMeasurementsBody(body) ==
    /\ pcB = "idle"
    /\ body \in BodyShapes
    /\ pcB' = "done"
    /\ resp' = [ErrorResp("post_measurements",
                          IF BodyError(body) = "AttributeError"
                          THEN 500 ELSE 400)
                  EXCEPT !.body = body]
    /\ UNCHANGED <<sensors, measurements, session, created, batch, pre,
                   alert_rules>>

\* post_measurements, one iteration of "for reading in readings" inside
\* "with session_scope(...)"; more tells whether readings follow this one.
\* The iteration that ends the request (the last reading, a ValueError
\* answered by return ..., 400, or another exception) also leaves the with
\* block and sends the response.
IngestRecord(reading, utc_now, more) ==
    /\ pcB \in {"idle", "ingest"}
    /\ batch' = Append(batch, [reading |-> reading, utc_now |-> utc_now])
    /\ UNCHANGED <<pre, alert_rules>>
    /\ LET err == NormalizeError(reading)
           data == NormalizeReading(reading, utc_now)
           flushed == FlushedAfterGetOrCreate(sensors \o session.sensors,
                                              session.sensors, data)
           sensor_id == SensorIdOf(sensors \o flushed, data.sensor_key)
           added == [sensors |-> flushed,
                     measurements |-> Append(session.measurements,
                                             NewMeasurement(sensor_id, data))]
           leave(sess, raised) ==
               SessionScopeExit(sensors, measurements, sess, raised)
           \* get_or_create_sensor's session.flush() raises
           flush_raises == /\ err = "none"
                           /\ flushed # session.sensors
                           /\ FlushRaises(session)
       IN  CASE err = "ValueError" ->
                  /\ sensors' = leave(session, FALSE).sensors
                  /\ measurements' = leave(session, FALSE).measurements
                  /\ resp' = ErrorResp("post_measurements",
                                       IF FlushRaises(session)
                                       THEN 500 ELSE 400)
                  /\ pcB' = "done"
                  /\ session' = EmptySession
                  /\ UNCHANGED created
             [] err = "AttributeError" \/ flush_raises ->
                  /\ sensors' = leave(session, TRUE).sensors
                  /\ measurements' = leave(session, TRUE).measurements
                  /\ resp' = ErrorResp("post_measurements", 500)
                  /\ pcB' = "done"
                  /\ session' = EmptySession
                  /\ UNCHANGED created
             [] err = "none" /\ more ->
                  /\ session' = added
                  /\ created' = created + 1
                  /\ pcB' = "ingest"
                  /\ UNCHANGED <<sensors, measurements, resp>>
             [] OTHER ->
                  /\ sensors' = leave(added, FALSE).sensors
                  /\ measurements' = leave(added, FALSE).measurements
                  /\ created' = created + 1
                  /\ resp' = IF FlushRaises(added)
                             THEN ErrorResp("post_measurements", 500)
                             ELSE [NoResp EXCEPT
                                     !.req = "post_measurements",
                                     !.status = 200,
                                     !.ingested = IngestedCount(created + 1)]
                  /\ pcB' = "done"
                  /\ session' = EmptySession

(***************************************************************************)
(* backend/api.py: range query                                             *)
(***************************************************************************)

\* serialize_measurement(measurement, include_sensor=True)
SerializeMeasurement(sn, row) ==
    [metric |-> row.metric, value |-> row.value, unit |-> row.unit,
     recorded_at |-> row.recorded_at, sensor_key |-> sn[row.sensor_id].key]

\* parse_optional_datetime: <<>> for None, <<t>> for a datetime
ParseOptionalDatetime(v) ==
    IF v.kind \in {"none", "empty"} THEN <<>> ELSE <<ParseIso8601(v)>>

MatchingRowsExclusive(sn, ms, sensor_key, metric, start_dt, end_dt) ==
    {rc \in UNION {{<<row, c>> : c \in 1..CopiesIn(row, ms)} :
                     row \in BagToSet(ms)} :
        /\ sn[rc[1].sensor_id].key = sensor_key
        /\ rc[1].metric = metric
        /\ start_dt = <<>> \/ rc[1].recorded_at > start_dt[1]
        /\ end_dt = <<>> \/ rc[1].recorded_at < end_dt[1]}

\* The rows of the query: join on the sensor, the filters on key, metric and
\* the bounds. A row held n times gives the n copies <<row, 1>> .. <<row, n>>.
MatchingRows(sn, ms, sensor_key, metric, start_dt, end_dt) ==
    {rc \in UNION {{<<row, c>> : c \in 1..CopiesIn(row, ms)} :
                     row \in BagToSet(ms)} :
        /\ sn[rc[1].sensor_id].key = sensor_key
        /\ rc[1].metric = metric
        /\ start_dt = <<>> \/ rc[1].recorded_at >= start_dt[1]
        /\ end_dt = <<>> \/ rc[1].recorded_at <= end_dt[1]}

\* order_by(Measurement.recorded_at) / order_by(desc(...)): every order of
\* the rows the database may return, rows of equal recorded_at in any order
ComesFirstReversed(a, b, order) ==
    IF order = "desc" THEN a.recorded_at <= b.recorded_at
    ELSE a.recorded_at >= b.recorded_at
ComesFirst(a, b, order) ==
    IF order = "desc" THEN a.recorded_at >= b.recorded_at
    ELSE a.recorded_at <= b.recorded_at

RECURSIVE OrderedBy(_, _)
OrderedBy(rows, order) ==
    IF rows = {} THEN {<<>>}
    ELSE UNION {{<<f[1]>> \o rest : rest \in OrderedBy(rows \ {f}, order)} :
                  f \in {x \in rows :
                           \A y \in rows : ComesFirst(x[1], y[1], order)}}

\* .limit(limit): SQLite reads a negative LIMIT as no limit
ApplyLimit(s, limit) ==
    IF limit < 0 \/ limit >= Len(s) THEN s ELSE SubSeq(s, 1, limit)

\* limit = min(int(request.args.get("limit", 1440)), 10000)
LimitOf(text) ==
    IF text = NoneVal THEN Min(DefaultLimit, HardLimit)
    ELSE Min(IntOf(text), HardLimit)

\* Every list of measurements the query may answer with
QueryResults(sn, ms, q) ==
    LET rows == MatchingRows(sn, ms, q.sensor_key, q.metric,
                             ParseOptionalDatetime(q.start),
                             ParseOptionalDatetime(q.end))
    IN  {[i \in 1..Len(ApplyLimit(s, LimitOf(q.limit))) |->
             SerializeMeasurement(sn, s[i])] :
           s \in OrderedBy(rows, q.order)}

\* get_measurements
\* What the session of get_measurements holds when its with block is left:
\* session.query(...) adds no row, whether or not a sensor has the key.
QueryProvisions(sn, q) ==
    IF SensorIdOf(sn, q.sensor_key) = 0
    THEN [EmptySession EXCEPT
            !.sensors = <<NewSensor([sensor_key |-> q.sensor_key,
                                     sensor_name |-> NoneVal,
                                     sensor_model |-> NoneVal,
                                     sensor_location |-> NoneVal,
                                     poll_interval_sec |-> <<>>])>>]
    ELSE EmptySession
QuerySession(sn, q) == EmptySession

GetMeasurements(q) ==
    /\ pcB = "idle"
    /\ pcB' = "done"
    /\ UNCHANGED <<session, created, batch, pre, alert_rules>>
    /\ IF Falsy(q.sensor_key) \/ Falsy(q.metric)
       THEN /\ resp' = [ErrorResp("get_measurements", 400) EXCEPT
                          !.query = q]
            /\ UNCHANGED <<sensors, measurements>>
       ELSE IF q.limit # NoneVal /\ q.limit \notin IntTexts
       THEN /\ resp' = [ErrorResp("get_measurements", 500) EXCEPT
                          !.query = q]
            /\ UNCHANGED <<sensors, measurements>>
       ELSE IF \E v \in {q.start, q.end} :
                 v.kind \notin {"none", "empty", "iso"}
       THEN /\ resp' = [ErrorResp("get_measurements", 400) EXCEPT
                          !.query = q]
            /\ UNCHANGED <<sensors, measurements>>
       ELSE /\ \E out \in QueryResults(sensors, measurements, q) :
                 resp' = [NoResp EXCEPT
                            !.req = "get_measurements", !.status = 200,
                            !.measurements = out, !.order = q.order,
                            !.query = q]
            \* the with block is left: session_scope commits the session
            /\ LET left == SessionScopeExit(sensors, measurements,
                                            QuerySession(sensors, q), FALSE)
               IN  /\ sensors' = left.sensors
                   /\ measurements' = left.measurements

(***************************************************************************)
(* backend/api.py: summary                                                 *)
(***************************************************************************)
\* api.py: limit = min(int(request.args.get("limit", 400)), 2000)
SummaryDefaultLimit == 400
SummaryHardLimit == 2000

SummaryLimitOf(text) ==
    IF text = NoneVal THEN Min(SummaryDefaultLimit, SummaryHardLimit)
    ELSE Min(IntOf(text), SummaryHardLimit)

\* serialize_measurement(measurement, include_sensor=False)
SerializeMeasurementNoSensor(row) ==
    [metric |-> row.metric, value |-> row.value, unit |-> row.unit,
     recorded_at |-> row.recorded_at]

\* session.query(Measurement).order_by(desc(recorded_at)).limit(limit).all():
\* every list of rows the query may read
ScannedRows(ms, limit) ==
    LET rows == UNION {{<<row, c>> : c \in 1..CopiesIn(row, ms)} :
                         row \in BagToSet(ms)}
    IN  {ApplyLimit(s, limit) : s \in OrderedBy(rows, "desc")}

\* summary_map.setdefault(sensor.key, {...}): the entry of the sensor, put
\* last when the key is new
SetDefaultAppends(summary, sensor) ==
    Append(summary, [key |-> sensor.key, name |-> sensor.name,
                     model |-> sensor.model,
                     location |-> sensor.location, metrics |-> <<>>])
SetDefault(summary, sensor) ==
    IF \E i \in 1..Len(summary) : summary[i].key = sensor.key
    THEN summary
    ELSE Append(summary, [key |-> sensor.key, name |-> sensor.name,
                          model |-> sensor.model,
                          location |-> sensor.location, metrics |-> <<>>])

\* One iteration of build_summary_payload's loop: the measurement is put in
\* its sensor's entry unless the entry has the metric (metrics_seen)
AddLastSeen(summary, sensor, row) ==
    LET with == SetDefault(summary, sensor)
        i == CHOOSE j \in 1..Len(with) : with[j].key = sensor.key
        others == SelectSeq(with[i].metrics,
                            LAMBDA e : e.metric # row.metric)
    IN  [with EXCEPT ![i].metrics =
           Append(others, SerializeMeasurementNoSensor(row))]
AddFirstSeen(summary, sensor, row) ==
    LET with == SetDefault(summary, sensor)
        i == CHOOSE j \in 1..Len(with) : with[j].key = sensor.key
    IN  IF \E j \in 1..Len(with[i].metrics) :
              with[i].metrics[j].metric = row.metric
        THEN with
        ELSE [with EXCEPT ![i].metrics =
                Append(@, SerializeMeasurementNoSensor(row))]

\* build_summary_payload(measurements), the rows taken in their order
RECURSIVE SummaryFrom(_, _, _)
SummaryFrom(summary, sn, rows) ==
    IF rows = <<>> THEN summary
    ELSE SummaryFrom(AddFirstSeen(summary, sn[rows[1].sensor_id], rows[1]),
                     sn, Tail(rows))

AllSensorsListed(sn, rows) ==
    [i \in 1..Len(sn) |->
       [key |-> sn[i].key, name |-> sn[i].name, model |-> sn[i].model,
        location |-> sn[i].location,
        metrics |-> LET own == SelectSeq(rows, LAMBDA r : r.sensor_id = i)
                    IN  IF own = <<>> THEN <<>>
                        ELSE SummaryFrom(<<>>, sn, own)[1].metrics]]
BuildSummaryPayload(sn, rows) == SummaryFrom(<<>>, sn, rows)

\* get_summary
GetSummary(limit) ==
    /\ pcB = "idle"
    /\ pcB' = "done"
    /\ UNCHANGED <<sensors, measurements, session, created, batch, pre,
                   alert_rules>>
    /\ IF limit # NoneVal /\ limit \notin IntTexts
       THEN resp' = ErrorResp("get_summary", 500)
       ELSE \E rows \in ScannedRows(measurements, SummaryLimitOf(limit)) :
              resp' = [NoResp EXCEPT
                         !.req = "get_summary", !.status = 200,
                         !.summary = BuildSummaryPayload(sensors, rows),
                         !.scanned = rows, !.limit = limit]

(***************************************************************************)
(* backend/api.py: sensor listing                                          *)
(***************************************************************************)
\* serialize_sensor; enabled and unit_preference are the column defaults
SerializeSensor(id, sensor) ==
    [id |-> id, key |-> sensor.key, name |-> sensor.name,
     model |-> sensor.model, location |-> sensor.location,
     enabled |-> TRUE, poll_interval_sec |-> sensor.poll_interval_sec,
     unit_preference |-> "f"]

\* The place of a name in order_by(Sensor.name)
NameRank(name) ==
    CASE name = "Ambient Air" -> 1
      [] name = "Basking" -> 2
      [] name = "New Dev" -> 3
      [] OTHER -> 4

\* session.query(Sensor).order_by(Sensor.name).all(), serialized: every
\* list the query may give, sensors of one name in any order
RECURSIVE SensorsByName(_, _)
SensorsByName(sn, ids) ==
    IF ids = {} THEN {<<>>}
    ELSE UNION {{<<SerializeSensor(i, sn[i])>> \o rest :
                   rest \in SensorsByName(sn, ids \ {i})} :
                  i \in {x \in ids : \A y \in ids :
                           NameRank(sn[x].name) <= NameRank(sn[y].name)}}

\* get_sensors
GetSensors ==
    /\ pcB = "idle"
    /\ pcB' = "done"
    /\ UNCHANGED <<sensors, measurements, session, created, batch, pre,
                   alert_rules>>
    /\ \E list \in SensorsByName(sensors, 1..Len(sensors)) :
         resp' = [NoResp EXCEPT !.req = "get_sensors", !.status = 200,
                                !.sensors = list]

(***************************************************************************)
(* backend/api.py: alert rules                                             *)
(***************************************************************************)
\* coerce_optional_float raises ValueError
CoerceError(value) == value # NoneVal /\ value \notin FloatTexts

\* normalize_alert: "AttributeError" (the body is no JSON object),
\* "ValueError" or "none" (it returns)
NormalizeAlertErrorNoTarget(payload) ==
    CASE payload.json # "object" -> "AttributeError"
      [] Falsy(payload.metric) \/ Falsy(payload.channel) -> "ValueError"
      [] CoerceError(payload.min_value) \/ CoerceError(payload.max_value)
           -> "ValueError"
      [] OTHER -> "none"
NormalizeAlertError(payload) ==
    CASE payload.json # "object" -> "AttributeError"
      [] \/ Falsy(payload.metric) \/ Falsy(payload.channel)
         \/ Falsy(payload.target) -> "ValueError"
      [] CoerceError(payload.min_value) \/ CoerceError(payload.max_value)
           -> "ValueError"
      [] OTHER -> "none"

\* coerce_optional_float: <<>> for None
CoerceOptionalFloat(value) ==
    IF value = NoneVal THEN <<>> ELSE <<FloatOf(value)>>

\* normalize_alert's AlertRule
NormalizeAlert(payload) ==
    [metric |-> payload.metric,
     min_value |-> CoerceOptionalFloat(payload.min_value),
     max_value |-> CoerceOptionalFloat(payload.max_value),
     channel |-> payload.channel, target |-> payload.target,
     enabled |-> payload.enabled]

\* post_alerts
PostAlerts(payload) ==
    /\ pcB = "idle"
    /\ pcB' = "done"
    /\ UNCHANGED <<sensors, measurements, session, created, batch, pre>>
    /\ LET err == NormalizeAlertError(payload)
       IN  CASE err = "AttributeError" ->
                  /\ resp' = [ErrorResp("post_alerts", 500) EXCEPT
                                !.payload = payload]
                  /\ UNCHANGED alert_rules
             [] err = "ValueError" ->
                  /\ resp' = [ErrorResp("post_alerts", 400) EXCEPT
                                !.payload = payload]
                  /\ UNCHANGED alert_rules
             [] OTHER ->
                  /\ alert_rules' = Append(alert_rules,
                                           NormalizeAlert(payload))
                  /\ resp' = [NoResp EXCEPT !.req = "post_alerts",
                                            !.status = 200,
                                            !.created = TRUE,
                                            !.payload = payload]

\* serialize_alert
SerializeAlert(id, alert) ==
    [id |-> id, metric |-> alert.metric, min_value |-> alert.min_value,
     max_value |-> alert.max_value, channel |-> alert.channel,
     target |-> alert.target, enabled |-> alert.enabled]

\* The place of a metric in order_by(AlertRule.metric)
MetricRank(metric) == IF metric = "m1" THEN 1 ELSE 2

\* session.query(AlertRule).order_by(AlertRule.metric).all(), serialized
RECURSIVE AlertsByMetric(_, _)
AlertsByMetric(rules, ids) ==
    IF ids = {} THEN {<<>>}
    ELSE UNION {{<<SerializeAlert(i, rules[i])>> \o rest :
                   rest \in AlertsByMetric(rules, ids \ {i})} :
                  i \in {x \in ids : \A y \in ids :
                           MetricRank(rules[x].metric)
                             <= MetricRank(rules[y].metric)}}

\* get_alerts
GetAlerts ==
    /\ pcB = "idle"
    /\ pcB' = "done"
    /\ UNCHANGED <<sensors, measurements, session, created, batch, pre,
                   alert_rules>>
    /\ \E list \in AlertsByMetric(alert_rules, 1..Len(alert_rules)) :
         resp' = [NoResp EXCEPT !.req = "get_alerts", !.status = 200,
                                !.alerts = list]

\* The response is sent; the next request finds the tables as committed.
Return ==
    /\ pcB = "done"
    /\ pcB' = "idle"
    /\ resp' = NoResp
    /\ batch' = <<>>
    /\ created' = 0
    /\ session' = EmptySession
    /\ pre' = Tables(sensors, measurements)
    /\ UNCHANGED <<sensors, measurements, alert_rules>>

(***************************************************************************)
(* Requests of the model                                                   *)
(***************************************************************************)
NoMeta(reading) ==
    [json |-> "object", sensor_key |-> reading.sensor_key,
     metric |-> reading.metric, value |-> reading.value,
     unit |-> reading.unit, recorded_at |-> reading.recorded_at,
     sensor_name |-> NoneVal, sensor_model |-> NoneVal,
     sensor_location |-> NoneVal, poll_interval_sec |-> <<>>]

GoodReadings ==
    {NoMeta(r) : r \in [sensor_key : {SeededKey}, metric : {"m1"},
                        value : {"5"}, unit : {"c"},
                        recorded_at : {Naive(1)}]
                   \cup [sensor_key : {"new_dev"}, metric : {"m2"},
                         value : {"5"}, unit : {"c"},
                         recorded_at : {Naive(1)}]
                   \cup [sensor_key : {"new_dev"}, metric : {"m1"},
                         value : {"5"}, unit : {"c"},
                         recorded_at : {Naive(1)}]}

BaseReading ==
    NoMeta([sensor_key |-> "new_dev", metric |-> "m1", value |-> "5",
            unit |-> "c", recorded_at |-> Naive(2)])

OtherGoodReadings ==
    {[BaseReading EXCEPT !.value = "0"],
     [BaseReading EXCEPT !.recorded_at = NoTime],
     [BaseReading EXCEPT !.recorded_at = Offset(3, 1)]}

NamedReadings ==
    {[BaseReading EXCEPT !.sensor_name = "Basking", !.sensor_model = "DS18B20",
                         !.sensor_location = "Warm hide",
                         !.poll_interval_sec = <<30>>],
     [BaseReading EXCEPT !.sensor_name = "", !.poll_interval_sec = <<0>>],
     [BaseReading EXCEPT !.poll_interval_sec = <<-5>>],
     [BaseReading EXCEPT !.sensor_key = SeededKey,
                         !.recorded_at = Naive(1),
                         !.sensor_name = "Renamed",
                         !.sensor_model = "DS18B20",
                         !.sensor_location = "Warm hide",
                         !.poll_interval_sec = <<30>>]}

\* values float() takes that are no finite number
NonFiniteReadings ==
    {[BaseReading EXCEPT !.value = "inf"],
     [BaseReading EXCEPT !.value = "nan"]}

\* unit is only compared with None
EmptyUnitReadings == {[BaseReading EXCEPT !.unit = ""]}

BadReadings ==
    {[BaseReading EXCEPT !.sensor_key = NoneVal],
     [BaseReading EXCEPT !.sensor_key = ""],
     [BaseReading EXCEPT !.metric = NoneVal],
     [BaseReading EXCEPT !.metric = ""],
     [BaseReading EXCEPT !.value = NoneVal],
     [BaseReading EXCEPT !.value = "abc"],
     [BaseReading EXCEPT !.unit = NoneVal],
     [BaseReading EXCEPT !.recorded_at = BadTime],
     [BaseReading EXCEPT !.recorded_at = NumberTime],
     [BaseReading EXCEPT !.json = "other"]}

Readings ==
    GoodReadings \cup OtherGoodReadings \cup NamedReadings
      \cup NonFiniteReadings \cup EmptyUnitReadings \cup BadReadings

\* utcnow() is read only for a reading without recorded_at
UtcNows(reading) ==
    IF reading.recorded_at.kind \in {"none", "empty"} THEN {1, 3} ELSE {1}

\* request.args of GET /api/measurements: every key and metric without
\* bounds, and one pair with bounds, with limits and in descending order
BaseQuery ==
    [sensor_key |-> "new_dev", metric |-> "m1", start |-> NoTime,
     end |-> NoTime, limit |-> NoneVal, order |-> "asc"]

Queries ==
    {[BaseQuery EXCEPT !.sensor_key = k, !.metric = m] :
        k \in Keys \cup {NoneVal}, m \in Metrics \cup {NoneVal}}
    \cup {[BaseQuery EXCEPT !.start = lo, !.end = hi] :
            lo \in {NoTime, Naive(2)}, hi \in {NoTime, Naive(2)}}
    \cup {[BaseQuery EXCEPT !.start = BadTime],
          [BaseQuery EXCEPT !.end = BadTime],
          [BaseQuery EXCEPT !.start = BadTime, !.limit = "abc"],
          [BaseQuery EXCEPT !.sensor_key = ""],
          [BaseQuery EXCEPT !.metric = ""],
          [BaseQuery EXCEPT !.start = EmptyTime],
          [BaseQuery EXCEPT !.start = Offset(3, 1)],
          [BaseQuery EXCEPT !.end = Offset(3, 1)],
          [BaseQuery EXCEPT !.order = "desc"]}
    \cup {[BaseQuery EXCEPT !.limit = l] : l \in IntTexts \cup {"abc"}}

\* request.args of GET /api/summary
SummaryLimits == {NoneVal, "abc"} \cup IntTexts

\* The JSON body of POST /api/alerts
BaseAlert ==
    [json |-> "object", metric |-> "m1", channel |-> "email",
     target |-> "keeper", min_value |-> "0", max_value |-> NoneVal,
     enabled |-> TRUE]

AlertPayloads ==
    {BaseAlert,
     [BaseAlert EXCEPT !.target = NoneVal],
     [BaseAlert EXCEPT !.metric = NoneVal],
     [BaseAlert EXCEPT !.channel = ""],
     [BaseAlert EXCEPT !.min_value = "abc"],
     [BaseAlert EXCEPT !.max_value = "abc"],
     [BaseAlert EXCEPT !.json = "array"]}

StoredRows == BagCardinality(measurements) + Len(session.measurements)

\* The concurrent requests: none has arrived
Requests == {1, 2}

IdleRequest ==
    [pc |-> "idle", readings |-> <<>>, idx |-> 1, sess |-> EmptySession,
     status |-> 0, ingested |-> 0, created |-> 0]

RaceStart ==
    /\ reqs = [p \in Requests |-> IdleRequest]
    /\ lock = 0

AgentStart ==
    /\ clock = 0
    /\ tasks = <<>>
    /\ pcA = "build"
    /\ now = 0
    /\ idx = 1
    /\ next_times = <<>>
    /\ sleep_for = 0
    /\ tickNo = 0
    /\ dueAt = <<>>
    /\ prevRun = <<>>
    /\ reads = <<>>
    /\ outcome = <<>>
    /\ posts = <<>>
    /\ got = <<>>
    /\ sent = <<>>
    /\ polls = <<>>
    /\ lastPoll = <<>>
    /\ failedEver = FALSE

\* create_app: the tables exist and seed_default_sensors has run
BackendStart ==
    /\ sensors = <<SeedSensor>>
    /\ measurements = EmptyBag
    /\ pcB = "idle"
    /\ session = EmptySession
    /\ created = 0
    /\ resp = NoResp
    /\ batch = <<>>
    /\ pre = Tables(<<SeedSensor>>, EmptyBag)
    /\ alert_rules = <<>>

InitAgent == AgentStart /\ BackendStart /\ RaceStart

\* The agent started from its configuration; the clock is capped at MaxClock.
NextAgent ==
    \/ /\ \E iv \in Intervals, d \in Delays :
            Len(tasks) < MaxTasks /\ clock + d <= MaxClock /\ BuildTask(iv, d)
       /\ UNCHANGED <<backendVars, raceVars>>
    \/ /\ TickStart
       /\ UNCHANGED <<backendVars, raceVars>>
    \/ /\ \E o \in Outcomes, d \in Delays :
            clock + d <= MaxClock /\ ProcessTask(o, d)
       /\ UNCHANGED <<backendVars, raceVars>>
    \/ /\ \E extra \in Oversleeps :
            /\ clock + SleepFor(next_times, clock) + extra <= MaxClock
            /\ Sleep(extra)
       /\ UNCHANGED <<backendVars, raceVars>>

SpecAgent == InitAgent /\ [][NextAgent]_vars

(***************************************************************************)
(* The simulated run of two tasks with intervals 10 s and 30 s built at    *)
(* the same instant: reads and posts take no time and a sleep lasts        *)
(* exactly sleep_for, as under a patched time.time / time.sleep.           *)
(***************************************************************************)
SimWindow == HalfSec(30)

InitSim ==
    /\ BackendStart
    /\ RaceStart
    /\ clock = 0
    /\ tasks = <<NewTask(10, 0), NewTask(30, 0)>>
    /\ pcA = "top"
    /\ now = 0
    /\ idx = 1
    /\ next_times = <<>>
    /\ sleep_for = 0
    /\ tickNo = 0
    /\ dueAt = <<FALSE, FALSE>>
    /\ prevRun = <<0, 0>>
    /\ reads = <<0, 0>>
    /\ outcome = <<NoneVal, NoneVal>>
    /\ posts = <<0, 0>>
    /\ got = <<<<>>, <<>>>>
    /\ sent = <<<<>>, <<>>>>
    /\ polls = <<0, 0>>
    /\ lastPoll = <<-1, -1>>
    /\ failedEver = FALSE

NextSim ==
    \/ /\ TickStart
       /\ UNCHANGED <<backendVars, raceVars>>
    \/ /\ \E o \in Outcomes : ProcessTask(o, 0)
       /\ UNCHANGED <<backendVars, raceVars>>
    \/ /\ clock + SleepFor(next_times, clock) <= SimWindow
       /\ Sleep(0)
       /\ UNCHANGED <<backendVars, raceVars>>

SpecSim == InitSim /\ [][NextSim]_vars

(***************************************************************************)
(* The polling loop running for ever.  time.time() has no fixed origin and *)
(* poll_loop only compares and subtracts times, so here every time is kept *)
(* relative to the start of the current tick: the top of the loop moves    *)
(* the origin to the present and clears sleep_for, which poll_loop assigns *)
(* before it reads it.  Of the histories only reads and failedEver are     *)
(* kept.                                                                   *)
(***************************************************************************)

\* now = time.time(); next_times = [], with the origin moved to now
LiveTickStart ==
    /\ pcA \in {"build", "top"}
    /\ pcA' = "loop"
    /\ now' = 0
    /\ clock' = 0
    /\ tasks' = [i \in TaskIds |->
                   [tasks[i] EXCEPT !.next_run = @ - clock]]
    /\ next_times' = <<>>
    /\ idx' = 1
    /\ sleep_for' = 0
    /\ reads' = [i \in TaskIds |-> 0]
    /\ UNCHANGED <<tickNo, dueAt, prevRun, outcome, posts, got, sent, polls,
                   lastPoll, failedEver>>

\* One iteration of "for task in tasks", as ProcessTask: outcome o of the
\* try block decides whether the loop goes on and what next_run becomes.
LiveProcessTask(o, d) ==
    /\ pcA = "loop"
    /\ idx <= Len(tasks)
    /\ IF IsDue(tasks[idx], now)
       THEN /\ reads' = [reads EXCEPT ![idx] = @ + 1]
            /\ failedEver' = (failedEver \/ o \in Failures)
            /\ clock' = clock + d
            /\ IF o \in Failures /\ ~Caught(o)
               THEN /\ pcA' = "crashed"
                    /\ UNCHANGED <<tasks, next_times, idx>>
               ELSE /\ tasks' = [tasks EXCEPT ![idx].next_run =
                                     Advance(tasks[idx], now, o)]
                    /\ next_times' =
                         Append(next_times, Advance(tasks[idx], now, o))
                    /\ idx' = idx + 1
                    /\ UNCHANGED pcA
       ELSE /\ o = "empty" /\ d = 0
            /\ next_times' = Append(next_times, tasks[idx].next_run)
            /\ idx' = idx + 1
            /\ UNCHANGED <<tasks, pcA, clock, reads, failedEver>>
    /\ UNCHANGED <<now, sleep_for, tickNo, dueAt, prevRun, outcome, posts,
                   got, sent, polls, lastPoll>>

NextLive ==
    \/ /\ \E iv \in Intervals, d \in Delays :
            Len(tasks) < MaxTasks /\ BuildTask(iv, d)
       /\ UNCHANGED <<backendVars, raceVars>>
    \/ /\ LiveTickStart
       /\ UNCHANGED <<backendVars, raceVars>>
    \/ /\ \E o \in Outcomes, d \in Delays : LiveProcessTask(o, d)
       /\ UNCHANGED <<backendVars, raceVars>>
    \/ /\ \E extra \in Oversleeps : Sleep(extra)
       /\ UNCHANGED <<backendVars, raceVars>>

\* Every call of the loop returns or raises and time.sleep returns: the
\* process always takes its next step.
SpecLive == InitAgent /\ [][NextLive]_vars /\ WF_vars(NextLive)

(***************************************************************************)
(* The backend serving one request at a time.                              *)
(***************************************************************************)
Init == BackendStart /\ AgentStart /\ RaceStart

Next ==
    \/ /\ \E body \in BodyShapes : PostMeasurementsBody(body)
       /\ UNCHANGED <<agentVars, raceVars>>
    \/ /\ Len(batch) < MaxBatch
       /\ \E reading \in Readings :
            /\ NormalizeError(reading) = "none" => StoredRows < MaxStore
            /\ \E utc_now \in UtcNows(reading) :
                 \E more \in {FALSE, Len(batch) + 1 < MaxBatch} :
                    IngestRecord(reading, utc_now, more)
       /\ UNCHANGED <<agentVars, raceVars>>
    \/ /\ \E q \in Queries : GetMeasurements(q)
       /\ UNCHANGED <<agentVars, raceVars>>
    \/ /\ \E limit \in SummaryLimits : GetSummary(limit)
       /\ UNCHANGED <<agentVars, raceVars>>
    \/ /\ GetSensors
       /\ UNCHANGED <<agentVars, raceVars>>
    \/ /\ \E payload \in AlertPayloads :
            /\ NormalizeAlertError(payload) = "none" =>
                 Len(alert_rules) < MaxAlerts
            /\ PostAlerts(payload)
       /\ UNCHANGED <<agentVars, raceVars>>
    \/ /\ GetAlerts
       /\ UNCHANGED <<agentVars, raceVars>>
    \/ /\ Return
       /\ UNCHANGED <<agentVars, raceVars>>

Spec == Init /\ [][Next]_vars

(***************************************************************************)
(* Two ingestion requests served at the same time (a threaded server):     *)
(* each has its own Session on the one SQLite database. A request's reads  *)
(* see the committed rows and its own flushed ones; its first INSERT takes *)
(* the database's write lock, which it holds until commit or rollback; an  *)
(* INSERT that finds the lock taken waits for it, up to the busy timeout.  *)
(***************************************************************************)
MaxRaceBatch == 2    \* readings in one of the two concurrent requests

RaceReadings ==
    {NoMeta([sensor_key |-> k, metric |-> "m1", value |-> "5",
             unit |-> "c", recorded_at |-> Naive(1)]) : k \in Keys}
      \cup {[BaseReading EXCEPT !.sensor_key = NoneVal]}

\* post_measurements is entered with a list of readings
BeginRequest(p, readings) ==
    /\ reqs[p].pc = "idle"
    /\ readings # <<>>
    /\ reqs' = [reqs EXCEPT ![p].pc = "loop", ![p].readings = readings]
    /\ UNCHANGED <<sensors, measurements, lock>>

\* The request ends with an exception: session.rollback(), HTTP 500
RolledBack(r) ==
    [r EXCEPT !.pc = "done", !.sess = EmptySession, !.status = 500]

\* One iteration of the loop up to get_or_create_sensor's lookup:
\* normalize_reading, then the SELECT; a sensor that is found gets the
\* measurement at once, a missing one is to be inserted.
LookupSensor(p) ==
    LET r == reqs[p]
        reading == r.readings[r.idx]
        data == NormalizeReading(reading, 1)
        visible == sensors \o r.sess.sensors
        sensor_id == SensorIdOf(visible, data.sensor_key)
    IN  /\ r.pc = "loop"
        /\ r.idx <= Len(r.readings)
        /\ UNCHANGED <<sensors, measurements, lock>>
        /\ reqs' =
             [reqs EXCEPT ![p] =
                CASE NormalizeError(reading) = "ValueError" ->
                       [r EXCEPT !.pc = "commit", !.status = 400]
                  [] NormalizeError(reading) = "AttributeError" ->
                       RolledBack(r)
                  [] sensor_id # 0 ->
                       [r EXCEPT !.sess.measurements =
                                   Append(@, NewMeasurement(sensor_id, data)),
                                 !.created = @ + 1, !.idx = @ + 1]
                  [] OTHER -> [r EXCEPT !.pc = "insert"]]

\* get_or_create_sensor's session.add(sensor); session.flush(): the INSERT
\* takes the write lock. When another request has committed a sensor of the
\* same key since the lookup, the unique index on sensors.key rejects the
\* row (IntegrityError); nothing catches it.
InsertWithoutUniqueIndex(p) ==
    LET r == reqs[p]
        data == NormalizeReading(r.readings[r.idx], 1)
        flushed == Append(r.sess.sensors, NewSensor(data))
        sensor_id == Len(sensors) + Len(flushed)
    IN  /\ r.pc = "insert"
        /\ lock \in {0, p}
        /\ UNCHANGED <<sensors, measurements>>
        /\ lock' = p
        /\ reqs' = [reqs EXCEPT ![p] =
                      [r EXCEPT !.pc = "loop",
                                !.sess = [sensors |-> flushed,
                                          measurements |->
                                            Append(r.sess.measurements,
                                                   NewMeasurement(sensor_id,
                                                                  data))],
                                !.created = @ + 1, !.idx = @ + 1]]
InsertSensor(p) ==
    LET r == reqs[p]
        data == NormalizeReading(r.readings[r.idx], 1)
        flushed == Append(r.sess.sensors, NewSensor(data))
        sensor_id == Len(sensors) + Len(flushed)
    IN  /\ r.pc = "insert"
        /\ lock \in {0, p}
        /\ UNCHANGED <<sensors, measurements>>
        /\ IF SensorIdOf(sensors, data.sensor_key) # 0
           THEN /\ lock' = 0
                /\ reqs' = [reqs EXCEPT ![p] = RolledBack(r)]
           ELSE /\ lock' = p
                /\ reqs' =
                     [reqs EXCEPT ![p] =
                        [r EXCEPT !.pc = "loop",
                                  !.sess = [sensors |-> flushed,
                                            measurements |->
                                              Append(r.sess.measurements,
                                                     NewMeasurement(sensor_id,
                                                                    data))],
                                  !.created = @ + 1, !.idx = @ + 1]]

\* The loop is over: the with block is left and session_scope commits
EndOfLoop(p) ==
    /\ reqs[p].pc = "loop"
    /\ reqs[p].idx > Len(reqs[p].readings)
    /\ reqs' = [reqs EXCEPT ![p].pc = "commit", ![p].status = 200]
    /\ UNCHANGED <<sensors, measurements, lock>>

\* session.commit(): the pending rows are written under the write lock and
\* the lock is released; a session without rows writes nothing
CommitRequest(p) ==
    LET r == reqs[p]
        writes == r.sess # EmptySession
    IN  /\ r.pc = "commit"
        /\ writes => lock \in {0, p}
        /\ sensors' = Commit(sensors, measurements, r.sess).sensors
        /\ measurements' = Commit(sensors, measurements, r.sess).measurements
        /\ lock' = IF lock = p THEN 0 ELSE lock
        /\ reqs' = [reqs EXCEPT ![p].pc = "done", ![p].sess = EmptySession,
                                ![p].ingested = IF r.status = 200
                                                THEN IngestedCount(r.created)
                                                ELSE 0]

\* The write lock is another request's for longer than the busy timeout:
\* the INSERT raises OperationalError (database is locked)
BusyTimeout(p) ==
    LET r == reqs[p]
    IN  /\ \/ r.pc = "insert"
           \/ r.pc = "commit" /\ r.sess # EmptySession
        /\ lock \notin {0, p}
        /\ reqs' = [reqs EXCEPT ![p] = RolledBack(r)]
        /\ UNCHANGED <<sensors, measurements, lock>>

requestVars == <<pcB, session, created, resp, batch, pre, alert_rules>>

RECURSIVE SeqsUpTo(_, _)
SeqsUpTo(S, n) ==
    IF n = 0 THEN {<<>>}
    ELSE SeqsUpTo(S, n - 1)
           \cup {Append(q, x) : q \in SeqsUpTo(S, n - 1), x \in S}

InitRace == BackendStart /\ AgentStart /\ RaceStart

NextRace ==
    \/ /\ \E p \in Requests, readings \in SeqsUpTo(RaceReadings, MaxRaceBatch) :
            BeginRequest(p, readings)
       /\ UNCHANGED <<agentVars, requestVars>>
    \/ /\ \E p \in Requests : LookupSensor(p)
       /\ UNCHANGED <<agentVars, requestVars>>
    \/ /\ \E p \in Requests : InsertSensor(p)
       /\ UNCHANGED <<agentVars, requestVars>>
    \/ /\ \E p \in Requests : EndOfLoop(p)
       /\ UNCHANGED <<agentVars, requestVars>>
    \/ /\ \E p \in Requests : CommitRequest(p)
       /\ UNCHANGED <<agentVars, requestVars>>
    \/ /\ \E p \in Requests : BusyTimeout(p)
       /\ UNCHANGED <<agentVars, requestVars>>

SpecRace == InitRace /\ [][NextRace]_vars

(***************************************************************************)
(* Properties of ingestion and of the range query.                         *)
(***************************************************************************)
IngestDone == pcB = "done" /\ resp.req = "post_measurements"

\* The request held a reading that normalize_reading rejects as invalid
\* (the loop stops there, so it is the last one consumed).
RejectedBatch ==
    /\ IngestDone
    /\ batch # <<>>
    /\ NormalizeError(batch[Len(batch)].reading) = "ValueError"

\* A reading as section 4.2 of the specification wants it
WellFormed(reading) ==
    /\ reading.json = "object"
    /\ ~Falsy(reading.sensor_key) /\ ~Falsy(reading.metric)
    /\ ~Falsy(reading.unit)
    /\ reading.value \in {"0", "5"}
    /\ reading.recorded_at.kind \in {"none", "iso"}

\* The instant a timestamp denotes, in UTC
InstantOf(v) == IF v.tz THEN v.local - v.off ELSE v.local

\* What a range query shows of a reading that was ingested
Shown(entry) ==
    [metric |-> entry.reading.metric,
     value |-> IF entry.reading.value = "0" THEN Finite(0) ELSE Finite(5),
     unit |-> entry.reading.unit,
     recorded_at |-> IF entry.reading.recorded_at.kind = "none"
                     THEN entry.utc_now
                     ELSE InstantOf(entry.reading.recorded_at),
     sensor_key |-> entry.reading.sensor_key]

Unbounded(k, m, order) ==
    [sensor_key |-> k, metric |-> m, start |-> NoTime, end |-> NoTime,
     limit |-> NoneVal, order |-> order]

BatchOf(k, m) ==
    SelectSeq(batch, LAMBDA e : e.reading.sensor_key = k
                                /\ e.reading.metric = m)

ShownBatch(k, m) ==
    SeqToBag([i \in 1..Len(BatchOf(k, m)) |-> Shown(BatchOf(k, m)[i])])

Sorted(out, order) ==
    \A i, j \in 1..Len(out) :
        i < j => IF order = "desc"
                 THEN out[i].recorded_at >= out[j].recorded_at
                 ELSE out[i].recorded_at <= out[j].recorded_at

\* C1: a batch with a reading that fails validation persists no reading
\* (not even the valid ones before it), is answered with a 4xx status, and
\* leaves every range query's answer as it was.
C1_InvalidBatchPersistsNothing ==
    RejectedBatch =>
      /\ resp.status \in 400..499
      /\ measurements = pre.measurements
      /\ \A k \in Keys, m \in Metrics :
           QueryResults(sensors, measurements, Unbounded(k, m, "asc"))
             = QueryResults(pre.sensors, pre.measurements,
                            Unbounded(k, m, "asc"))

\* C2: a batch with a reading that fails validation leaves table sensors
\* unchanged, also when valid readings of new keys come before it.
C2_InvalidBatchCreatesNoSensor ==
    RejectedBatch => sensors = pre.sensors

\* C3: a batch of N well-formed readings is answered with ingested = N, the
\* table grows by exactly N rows, the old rows staying, and for every key
\* and metric the unbounded range query answers with the rows it answered
\* with before plus the readings of the batch with that key and metric.
C3_ValidBatchIngested ==
    (IngestDone /\ batch # <<>>
       /\ \A i \in 1..Len(batch) : WellFormed(batch[i].reading)) =>
      /\ resp.status = 200
      /\ resp.ingested = Len(batch)
      /\ BagCardinality(measurements)
           = BagCardinality(pre.measurements) + Len(batch)
      /\ pre.measurements \sqsubseteq measurements
      /\ \A k \in Keys, m \in Metrics :
           \A out \in QueryResults(sensors, measurements,
                                   Unbounded(k, m, "asc")) :
             \A was \in QueryResults(pre.sensors, pre.measurements,
                                     Unbounded(k, m, "asc")) :
               SeqToBag(out) = SeqToBag(was) (+) ShownBatch(k, m)

C3_Witness ==
    /\ IngestDone
    /\ resp.status = 200
    /\ resp.ingested = 2
    /\ Len(batch) = 2
    /\ batch[1].reading.sensor_key = "new_dev"
    /\ batch[2].reading.sensor_key = "new_dev"
    /\ batch[1].reading.metric = batch[2].reading.metric
    /\ pre.measurements = EmptyBag
    /\ \E out \in QueryResults(sensors, measurements,
                              Unbounded("new_dev", batch[1].reading.metric,
                                        "asc")) :
         Len(out) = 2 /\ SeqToBag(out) = SeqToBag(<<Shown(batch[1]),
                                                    Shown(batch[2])>>)

\* C10: whatever the order of ingestion, whenever a request may arrive (the
\* tables change only when a request ends), the unbounded range query of a
\* key and metric answers with all stored readings of that pair sorted by
\* recorded_at, increasing for asc and decreasing for desc; with distinct
\* timestamps there is one possible answer. The response of a range query
\* is sorted in the order it asked for.
C10_RangeQuerySorted ==
    /\ pcB = "idle" =>
         \A k \in Keys, m \in Metrics, order \in {"asc", "desc"} :
           LET outs == QueryResults(sensors, measurements,
                                    Unbounded(k, m, order))
           IN  /\ \A out \in outs :
                     /\ Sorted(out, order)
                     /\ Len(out) = Cardinality(MatchingRows(sensors,
                                     measurements, k, m, <<>>, <<>>))
               /\ (\A out \in outs : \A i, j \in 1..Len(out) :
                      i # j => out[i].recorded_at # out[j].recorded_at)
                    => Cardinality(outs) = 1
    /\ (pcB = "done" /\ resp.req = "get_measurements") =>
         Sorted(resp.measurements, resp.order)

\* A late point: the batch brought t3 and then t1 while t2 was stored, and
\* the pair's ascending answer is t1, t2, t3 and its descending t3, t2, t1.
C10_Witness ==
    /\ IngestDone /\ resp.status = 200
    /\ Len(batch) = 2
    /\ batch[1].reading.sensor_key = "new_dev"
    /\ batch[2].reading.sensor_key = "new_dev"
    /\ batch[1].reading.metric = "m1" /\ batch[2].reading.metric = "m1"
    /\ Shown(batch[1]).recorded_at = 3 /\ Shown(batch[2]).recorded_at = 1
    /\ \E a \in QueryResults(sensors, measurements,
                            Unbounded("new_dev", "m1", "asc")) :
         /\ Len(a) = 3
         /\ a[1].recorded_at = 1 /\ a[2].recorded_at = 2
         /\ a[3].recorded_at = 3
    /\ \E d \in QueryResults(sensors, measurements,
                            Unbounded("new_dev", "m1", "desc")) :
         /\ Len(d) = 3
         /\ d[1].recorded_at = 3 /\ d[2].recorded_at = 2
         /\ d[3].recorded_at = 1

(***************************************************************************)
(* Properties of the polling loop.                                         *)
(***************************************************************************)
EndOfTick == pcA = "loop" /\ idx > Len(tasks)
TickRunning == tickNo > 0 /\ pcA \in {"loop", "top"}

\* C4: in every tick, each task with next_run <= now (now read at the start
\* of the tick) is read exactly once, and no task with next_run > now is
\* read: once the loop has passed task i, reads[i] is 1 if it was due and 0
\* if not, and a task the loop has not reached yet has not been read.
C4_DueTasksReadOnce ==
    tickNo > 0 =>
      /\ pcA # "crashed"
      /\ \A i \in TaskIds :
            reads[i] = IF dueAt[i] /\ i < idx THEN 1 ELSE 0

C4_Witness ==
    /\ EndOfTick
    /\ \E i, j \in TaskIds :
          dueAt[i] /\ reads[i] = 1 /\ ~dueAt[j] /\ reads[j] = 0

\* C5: a due task whose read raised or whose post was rejected has, once the
\* loop has passed it, next_run = now + interval_sec (the value a success
\* gives) and has been read once in this tick, not retried.
C5_FailureAdvancesSchedule ==
    TickRunning =>
      \A i \in TaskIds :
        (i < idx /\ outcome[i] \in Failures) =>
          /\ tasks[i].next_run = now + HalfSec(tasks[i].interval_sec)
          /\ reads[i] = 1

C5_Witness ==
    /\ EndOfTick
    /\ \E i, j \in TaskIds :
          /\ outcome[i] = "read_raises" /\ outcome[j] = "post_fails"
          /\ tasks[i].next_run = now + HalfSec(tasks[i].interval_sec)
          /\ tasks[j].next_run = now + HalfSec(tasks[j].interval_sec)

\* C6: a task processed in a tick gets next_run = now + interval_sec from
\* that tick's now, however late the tick is with respect to the task's
\* previous next_run; it is read once in the tick, and with a positive
\* interval it is no longer due at that now (no catch-up polls).
C6_NextRunFromNow ==
    TickRunning =>
      \A i \in TaskIds :
        (i < idx /\ prevRun[i] <= now) =>
          /\ tasks[i].next_run = now + HalfSec(tasks[i].interval_sec)
          /\ reads[i] = 1
          /\ tasks[i].interval_sec > 0 => tasks[i].next_run > now

C6_Witness ==
    /\ EndOfTick
    /\ \E i \in TaskIds :
          /\ tasks[i].interval_sec > 0
          /\ now - prevRun[i] >= 2 * HalfSec(tasks[i].interval_sec)
          /\ reads[i] = 1
          /\ tasks[i].next_run = now + HalfSec(tasks[i].interval_sec)

\* C7: a failing read or post of one task never stops the loop, and at the
\* end of a tick in which some task failed every task that was due at the
\* start of the tick has been read.
C7_FailureIsolation ==
    /\ pcA # "crashed"
    /\ (EndOfTick /\ \E i \in TaskIds : outcome[i] \in Failures) =>
          \A j \in TaskIds : dueAt[j] => reads[j] = 1

C7_Witness ==
    /\ EndOfTick
    /\ tickNo >= 2
    /\ \E i, j \in TaskIds :
          /\ i < j
          /\ outcome[i] \in Failures
          /\ dueAt[j] /\ reads[j] = 1 /\ outcome[j] = "ok"

\* C8: with intervals 10 s and 30 s and both tasks due at time 0, the ticks
\* fall at 0, 10, 20 and 30 s; when the 30 s window has elapsed the first
\* task has been polled three times and the second once, and the tick at
\* 30 s polls the second task again, whatever the outcomes of the first
\* task's reads were.
C8_TwoTaskSchedule ==
    /\ pcA # "crashed"
    /\ now \in {0, HalfSec(10), HalfSec(20), HalfSec(30)}
    /\ (pcA = "top" /\ clock = SimWindow) =>
          polls = <<3, 1>> /\ lastPoll[2] = 0
    /\ (EndOfTick /\ now = SimWindow) =>
          polls = <<4, 2>> /\ lastPoll[2] = SimWindow
    /\ (EndOfTick /\ now < SimWindow) => polls[1] = tickNo /\ polls[2] = 1

C8_Witness ==
    /\ EndOfTick
    /\ now = SimWindow
    /\ outcome[1] \in Failures
    /\ failedEver
    /\ polls = <<4, 2>>
    /\ reads[2] = 1

\* C9: every sleep_for handed to time.sleep is at least the 0.5 s floor.
C9_SleepFloor ==
    (pcA = "top" /\ tickNo > 0) => sleep_for >= SleepFloor

C9_Witness ==
    /\ pcA = "top"
    /\ tickNo > 0
    /\ Len(next_times) > 0
    /\ SeqMin(next_times) <= now
    /\ sleep_for = SleepFloor


(***************************************************************************)
(* Properties of the range query's bounds and cap.                         *)
(***************************************************************************)
\* The stored readings of a key and metric recorded from lo to hi, both
\* ends included, as a bag of what a query shows; lo and hi are <<>> or <<t>>
StoredWithin(k, m, lo, hi) ==
    LET rows == {row \in BagToSet(measurements) :
                   /\ sensors[row.sensor_id].key = k
                   /\ row.metric = m
                   /\ lo = <<>> \/ lo[1] <= row.recorded_at
                   /\ hi = <<>> \/ row.recorded_at <= hi[1]}
        shown(row) == [metric |-> row.metric, value |-> row.value,
                       unit |-> row.unit, recorded_at |-> row.recorded_at,
                       sensor_key |-> k]
    IN  [x \in {shown(row) : row \in rows} |->
           BagCardinality([row \in {r \in rows : shown(r) = x} |->
                             CopiesIn(row, measurements)])]

BoundParam(b) == IF b = <<>> THEN NoTime ELSE Naive(b[1])

OptionalTimes == {<<>>} \cup {<<t>> : t \in Times}

\* C11: the bounds of a range query are inclusive: whenever a request may
\* arrive, for every key, metric and bounds given (each absent or t1..t3),
\* the query without a limit answers with exactly the stored
\* readings of the pair with start <= recorded_at <= end, and the response
\* to a query with start = end = t2 holds exactly the readings at t2.
C11_InclusiveBounds ==
    /\ pcB = "idle" =>
         \A k \in Keys, m \in Metrics, lo \in OptionalTimes,
            hi \in OptionalTimes :
           \A out \in QueryResults(sensors, measurements,
                                   [sensor_key |-> k, metric |-> m,
                                    start |-> BoundParam(lo),
                                    end |-> BoundParam(hi),
                                    limit |-> NoneVal, order |-> "asc"]) :
             SeqToBag(out) = StoredWithin(k, m, lo, hi)
    /\ (/\ pcB = "done" /\ resp.req = "get_measurements"
        /\ resp.status = 200
        /\ resp.query.start = Naive(2) /\ resp.query.end = Naive(2)
        /\ resp.query.limit = NoneVal) =>
         SeqToBag(resp.measurements)
           = StoredWithin(resp.query.sensor_key, resp.query.metric,
                          <<2>>, <<2>>)

\* Readings of one pair at t1, t2 and t3 are stored, and the query with
\* start = end = t2 was answered with the reading at t2 alone.
C11_Witness ==
    /\ pcB = "done" /\ resp.req = "get_measurements" /\ resp.status = 200
    /\ resp.query.start = Naive(2) /\ resp.query.end = Naive(2)
    /\ resp.query.limit = NoneVal
    /\ \A t \in Times :
         \E row \in BagToSet(measurements) :
            /\ sensors[row.sensor_id].key = resp.query.sensor_key
            /\ row.metric = resp.query.metric
            /\ row.recorded_at = t
    /\ Len(resp.measurements) = 1
    /\ resp.measurements[1].recorded_at = 2

\* The most readings a range query may answer with when it came with this
\* limit parameter: min(limit, 10000), 1440 without one, and never less
\* than none at all.
AllowedCount(limit) ==
    IF limit = NoneVal THEN DefaultLimit
    ELSE Max(0, Min(IntOf(limit), HardLimit))

\* C12: a range query answers with at most min(limit, 10000) readings for
\* every limit the caller supplies, values above 10000, zero and negative
\* values included, and with at most 1440 when no limit is supplied.
C12_RangeQueryCapped ==
    (pcB = "done" /\ resp.req = "get_measurements" /\ resp.status = 200) =>
      /\ Len(resp.measurements) <= AllowedCount(resp.query.limit)
      /\ Len(resp.measurements) <= HardLimit

(***************************************************************************)
(* Properties of the summary.                                              *)
(***************************************************************************)
SummaryDone == pcB = "done" /\ resp.req = "get_summary" /\ resp.status = 200

\* The stored readings of a key and metric
PairRows(k, m) ==
    {row \in BagToSet(measurements) :
       sensors[row.sensor_id].key = k /\ row.metric = m}

\* Where the summary reports metric m of key k
MetricEntries(k, m) ==
    {ij \in (1..Len(resp.summary)) \X (1..MaxStore + 1) :
       /\ resp.summary[ij[1]].key = k
       /\ ij[2] <= Len(resp.summary[ij[1]].metrics)
       /\ resp.summary[ij[1]].metrics[ij[2]].metric = m}

\* The scan window the request asked for holds every stored reading
WithinWindow ==
    BagCardinality(measurements)
      <= IF resp.limit = NoneVal THEN SummaryDefaultLimit
         ELSE Min(IntOf(resp.limit), SummaryHardLimit)

\* C13: when the stored readings are within the scan window, the summary
\* reports every key and metric that has a reading exactly once, with the
\* value, unit and recorded_at of a reading of that pair of greatest
\* recorded_at, whatever the readings of the key's other metrics are.
C13_SummaryLatestPerPair ==
    (SummaryDone /\ WithinWindow) =>
      \A k \in Keys, m \in Metrics :
        PairRows(k, m) # {} =>
          /\ Cardinality(MetricEntries(k, m)) = 1
          /\ \A ij \in MetricEntries(k, m) :
               LET e == resp.summary[ij[1]].metrics[ij[2]]
               IN  \E row \in PairRows(k, m) :
                     /\ \A other \in PairRows(k, m) :
                          other.recorded_at <= row.recorded_at
                     /\ e.value = row.value /\ e.unit = row.unit
                     /\ e.recorded_at = row.recorded_at

\* new_dev has m1 at t1 (value 5) and at t2 (value 0) and m2 at t1 only;
\* the summary reports m1 as 0 at t2 and m2 as 5 at t1.
C13_Witness ==
    /\ SummaryDone /\ resp.limit = NoneVal
    /\ \E a, b \in PairRows("new_dev", "m1") :
         /\ a.recorded_at = 1 /\ a.value = Finite(5)
         /\ b.recorded_at = 2 /\ b.value = Finite(0)
    /\ Cardinality(PairRows("new_dev", "m2")) = 1
    /\ \E i \in 1..Len(resp.summary) :
         /\ resp.summary[i].key = "new_dev"
         /\ Len(resp.summary[i].metrics) = 2
         /\ \E j \in 1..2 :
              /\ resp.summary[i].metrics[j].metric = "m1"
              /\ resp.summary[i].metrics[j].value = Finite(0)
              /\ resp.summary[i].metrics[j].recorded_at = 2
         /\ \E j \in 1..2 :
              /\ resp.summary[i].metrics[j].metric = "m2"
              /\ resp.summary[i].metrics[j].value = Finite(5)
              /\ resp.summary[i].metrics[j].recorded_at = 1

\* The scanned rows of key k, and of key k and metric m
ScannedOf(k) ==
    {i \in 1..Len(resp.scanned) : sensors[resp.scanned[i].sensor_id].key = k}
ScannedOfPair(k, m) == {i \in ScannedOf(k) : resp.scanned[i].metric = m}

\* C14: the summary reduces the scanned rows, which are stored rows no
\* older than any row left out: a key and metric with no scanned row are
\* not reported, a key with no scanned row (a seeded sensor without
\* readings is one) has no entry, and the unbounded range query of every
\* key and metric still answers with all its stored readings.
C14_SummaryWindowed ==
    SummaryDone =>
      /\ SeqToBag(resp.scanned) \sqsubseteq measurements
      /\ \A i \in 1..Len(resp.scanned) :
           \A row \in BagToSet(measurements (-) SeqToBag(resp.scanned)) :
              row.recorded_at <= resp.scanned[i].recorded_at
      /\ \A k \in Keys :
           /\ ScannedOf(k) = {} =>
                \A i \in 1..Len(resp.summary) : resp.summary[i].key # k
           /\ \A m \in Metrics :
                /\ ScannedOfPair(k, m) = {} => MetricEntries(k, m) = {}
                /\ \A out \in QueryResults(sensors, measurements,
                                           Unbounded(k, m, "asc")) :
                      SeqToBag(out) = StoredWithin(k, m, <<>>, <<>>)

\* A window of one row: the seeded sensor's reading at t1 is older than the
\* scanned row, the summary has no entry for that sensor, and the range
\* query still answers with the reading.
C14_Witness ==
    /\ SummaryDone /\ resp.limit = "1"
    /\ Len(resp.scanned) = 1
    /\ PairRows(SeededKey, "m1") # {}
    /\ ScannedOf(SeededKey) = {}
    /\ \A i \in 1..Len(resp.summary) : resp.summary[i].key # SeededKey
    /\ Len(resp.summary) = 1
    /\ \E out \in QueryResults(sensors, measurements,
                              Unbounded(SeededKey, "m1", "asc")) :
         Len(out) >= 1 /\ out[1].recorded_at = 1

\* The widest scan window a summary may use when it came with this limit
\* parameter: min(limit, 2000), 400 without one, never less than no row.
AllowedWindow(limit) ==
    IF limit = NoneVal THEN SummaryDefaultLimit
    ELSE Max(0, Min(IntOf(limit), SummaryHardLimit))

RECURSIVE MetricCount(_)
MetricCount(summary) ==
    IF summary = <<>> THEN 0
    ELSE Len(summary[1].metrics) + MetricCount(Tail(summary))

\* C15: for every limit the caller supplies (above 2000, zero and negative
\* included) the summary scans at most min(limit, 2000) rows, 400 without a
\* limit, and so holds at most that many metric entries, each of them being
\* one of the scanned rows.
C15_SummaryWindowCapped ==
    SummaryDone =>
      /\ Len(resp.scanned) <= AllowedWindow(resp.limit)
      /\ MetricCount(resp.summary) <= AllowedWindow(resp.limit)
      /\ Len(resp.scanned) <= SummaryHardLimit
      /\ \A k \in Keys, m \in Metrics :
           \A ij \in MetricEntries(k, m) :
              \E i \in ScannedOfPair(k, m) :
                 resp.summary[ij[1]].metrics[ij[2]]
                   = SerializeMeasurementNoSensor(resp.scanned[i])

(***************************************************************************)
(* Properties of the sensors that ingestion creates.                       *)
(***************************************************************************)
KeysOf(sn) == {sn[i].key : i \in 1..Len(sn)}

\* The first reading of the batch with key k
FirstOf(k) ==
    batch[CHOOSE i \in 1..Len(batch) :
            /\ batch[i].reading.sensor_key = k
            /\ \A j \in 1..(i - 1) : batch[j].reading.sensor_key # k].reading

\* C16: after a batch was ingested, every key of the batch that no sensor
\* had before has exactly one sensor, created by this request, whether the
\* batch names the key once or several times; every listing of the sensors
\* shows it, with the name its first reading supplied, or the name made of
\* the key ("New Dev") when that reading supplied none, and with
\* poll_interval_sec 60 when that reading supplied none.
C16_SensorAutoCreated ==
    (IngestDone /\ resp.status = 200) =>
      \A k \in {batch[i].reading.sensor_key : i \in 1..Len(batch)}
                 \ KeysOf(pre.sensors) :
        /\ Cardinality({i \in 1..Len(sensors) : sensors[i].key = k}) = 1
        /\ \A list \in SensorsByName(sensors, 1..Len(sensors)) :
             /\ Cardinality({i \in 1..Len(list) : list[i].key = k}) = 1
             /\ \A i \in 1..Len(list) :
                  list[i].key = k =>
                    /\ list[i].name =
                         IF FirstOf(k).sensor_name \in {NoneVal, ""}
                         THEN "New Dev" ELSE FirstOf(k).sensor_name
                    /\ FirstOf(k).poll_interval_sec = <<>> =>
                         list[i].poll_interval_sec = 60

\* Two readings of the unseen key new_dev in one batch, the first without a
\* name: one sensor "New Dev" with interval 60 is listed after the seeded one.
C16_Witness ==
    /\ IngestDone /\ resp.status = 200
    /\ Len(batch) = 2
    /\ batch[1].reading.sensor_key = "new_dev"
    /\ batch[2].reading.sensor_key = "new_dev"
    /\ batch[1].reading.sensor_name = NoneVal
    /\ batch[1].reading.poll_interval_sec = <<>>
    /\ "new_dev" \notin KeysOf(pre.sensors)
    /\ \E list \in SensorsByName(sensors, 1..Len(sensors)) :
         /\ Len(list) = 2
         /\ list[2].key = "new_dev" /\ list[2].name = "New Dev"
         /\ list[2].poll_interval_sec = 60

(***************************************************************************)
(* Invariants of the store.                                                *)
(***************************************************************************)
\* C17: in every reachable state, after successful and failed ingestion
\* requests alike, the sensor_id of every stored measurement is the id of a
\* row of table sensors.
C17_NoOrphanReading ==
    \A row \in BagToSet(measurements) : row.sensor_id \in 1..Len(sensors)

\* A request that was answered 400 left a reading of a sensor it created.
C17_Witness ==
    /\ IngestDone /\ resp.status = 400
    /\ Len(sensors) = Len(pre.sensors) + 1
    /\ \E row \in BagToSet(measurements) :
         /\ row.sensor_id = Len(sensors)
         /\ sensors[row.sensor_id].key = "new_dev"

\* C18: readings are append-only: no step of any request (ingestion, range
\* query, summary, sensor listing, alert creation and listing) removes or
\* changes a stored measurement: every stored row stays as often as it was
\* stored, with its sensor_id, metric, value, unit and recorded_at, and the
\* sensor it refers to keeps its key.
C18_AppendOnly ==
    [][/\ measurements \sqsubseteq measurements'
       /\ Len(sensors) <= Len(sensors')
       /\ \A i \in 1..Len(sensors) : sensors'[i].key = sensors[i].key]_vars

\* A later ingestion added a reading to a store that held readings, after
\* an alert rule had been created.
C18_Witness ==
    /\ IngestDone
    /\ pre.measurements # EmptyBag
    /\ pre.measurements \sqsubseteq measurements
    /\ BagCardinality(measurements) > BagCardinality(pre.measurements)
    /\ alert_rules # <<>>

(***************************************************************************)
(* Properties of request validation.                                       *)
(***************************************************************************)
\* C19: an ingestion request whose readings are empty, missing or no list,
\* or whose body is no JSON object, is answered with a 4xx status, and
\* leaves tables sensors and measurements as they were.
C19_BadBodyRejected ==
    (IngestDone /\ resp.body \in BodyShapes) =>
      /\ resp.status \in 400..499
      /\ sensors = pre.sensors
      /\ measurements = pre.measurements

\* C20: a reading is accepted only if its value is a finite number: a
\* request with a reading whose value is missing, no number, NaN or infinite
\* is answered with a 4xx status, and no stored measurement ever has a value
\* that is not finite.
C20_FiniteValuesOnly ==
    /\ \A row \in BagToSet(measurements) : row.value.cls = "finite"
    /\ (/\ IngestDone
        /\ \E i \in 1..Len(batch) :
             /\ batch[i].reading.json = "object"
             /\ batch[i].reading.value \notin {"0", "5"}) =>
         resp.status \in 400..499

\* C21: a reading is accepted only with a sensor key, a metric and a unit
\* that are present and not empty: a request with a reading that lacks one
\* of the three, or has it as the empty string, is answered with a 4xx
\* status, and no stored measurement has an empty unit, metric or key.
C21_RequiredFieldsNonEmpty ==
    /\ \A row \in BagToSet(measurements) :
         /\ row.unit \notin {NoneVal, ""}
         /\ row.metric \notin {NoneVal, ""}
         /\ sensors[row.sensor_id].key \notin {NoneVal, ""}
    /\ (/\ IngestDone
        /\ \E i \in 1..Len(batch) :
             /\ batch[i].reading.json = "object"
             /\ \/ batch[i].reading.sensor_key \in {NoneVal, ""}
                \/ batch[i].reading.metric \in {NoneVal, ""}
                \/ batch[i].reading.unit \in {NoneVal, ""}) =>
         resp.status \in 400..499

RangeDone == pcB = "done" /\ resp.req = "get_measurements"

\* The request lacks sensor_key or metric, or its start or end is given and
\* is no timestamp
BadRangeRequest ==
    \/ resp.query.sensor_key \in {NoneVal, ""}
    \/ resp.query.metric \in {NoneVal, ""}
    \/ resp.query.start.kind = "bad"
    \/ resp.query.end.kind = "bad"

\* C22: a range query without sensor_key or metric, or with a start or end
\* that is no timestamp, is answered with a 4xx status and no result list;
\* a well-formed query that no stored reading matches (one for a key no
\* sensor has is such) is answered 200 with an empty list.
C22_BadRequestIsNotNoData ==
    RangeDone =>
      /\ BadRangeRequest => resp.status \in 400..499
      /\ (/\ ~BadRangeRequest
          /\ resp.query.limit \in {NoneVal} \cup IntTexts
          /\ StoredWithin(resp.query.sensor_key, resp.query.metric,
                          IF resp.query.start.kind = "iso"
                          THEN <<InstantOf(resp.query.start)>> ELSE <<>>,
                          IF resp.query.end.kind = "iso"
                          THEN <<InstantOf(resp.query.end)>> ELSE <<>>)
               = EmptyBag) =>
           resp.status = 200 /\ resp.measurements = <<>>

(***************************************************************************)
(* Properties of two requests served at the same time.                     *)
(***************************************************************************)
BothDone == \A p \in Requests : reqs[p].pc = "done"

\* Both requests hold well-formed readings only, and both name key k
BothIntroduce(k) ==
    \A p \in Requests :
       /\ \A i \in 1..Len(reqs[p].readings) :
             WellFormed(reqs[p].readings[i])
       /\ \E i \in 1..Len(reqs[p].readings) :
             reqs[p].readings[i].sensor_key = k

\* C23: when two requests served at the same time both bring readings of a
\* key that no sensor had, both are answered 200 with all their readings
\* ingested, the readings of both are stored, and one sensor has the key.
C23_ConcurrentFirstSeen ==
    \A k \in Keys \ {SeededKey} :
      (BothDone /\ BothIntroduce(k)) =>
        /\ \A p \in Requests :
             /\ reqs[p].status = 200
             /\ reqs[p].ingested = Len(reqs[p].readings)
        /\ BagCardinality(measurements)
             = Len(reqs[1].readings) + Len(reqs[2].readings)
        /\ Cardinality({i \in 1..Len(sensors) : sensors[i].key = k}) = 1

(***************************************************************************)
(* Properties of the stored sensors' poll interval.                        *)
(***************************************************************************)
\* C24: every stored sensor has a poll_interval_sec that is a positive
\* integer, whatever poll_interval_sec the readings carried.
C24_PollIntervalPositive ==
    \A i \in 1..Len(sensors) : sensors[i].poll_interval_sec \in Nat \ {0}

(***************************************************************************)
(* Properties of the hand-off from a sensor read to post_readings.         *)
(***************************************************************************)
\* C25: a post that fails is not repeated and nothing is queued: in every
\* tick a task hands at most one payload to post_readings per read, and none
\* without a read; after a failed post the loop has not crashed, the task's
\* next_run is now + interval, and every other due task is read in the tick.
C25_FailedPostLost ==
    /\ \A i \in TaskIds : Len(sent[i]) <= reads[i] /\ reads[i] <= 1
    /\ \A i \in TaskIds :
         outcome[i] = "post_fails" =>
           /\ Len(sent[i]) = 1
           /\ pcA # "crashed"
           /\ tasks[i].next_run = now + HalfSec(tasks[i].interval_sec)
           /\ EndOfTick => \A j \in TaskIds : dueAt[j] => reads[j] = 1

C25_Witness ==
    /\ EndOfTick
    /\ \E i, j \in TaskIds :
          /\ i < j
          /\ outcome[i] = "post_fails" /\ Len(sent[i]) = 1
          /\ outcome[j] = "ok" /\ Len(sent[j]) = 1

\* C26: a read that returned a non-empty list is followed by one call of
\* post_readings whose payload holds all readings of the list in order; no
\* payload is empty; a read that returned [] posts nothing and the task's
\* next_run still becomes now + interval.
C26_OneBatchPerRead ==
    \A i \in TaskIds :
      /\ (got[i] # <<>> /\ got[i][1] # <<>>) =>
            sent[i] = <<[readings |-> got[i][1]]>>
      /\ (got[i] = <<>> \/ got[i][1] = <<>>) => sent[i] = <<>>
      /\ \A k \in 1..Len(sent[i]) : sent[i][k].readings # <<>>
      /\ (reads[i] = 1 /\ got[i] = <<<<>>>>) =>
            /\ pcA # "crashed"
            /\ tasks[i].next_run = now + HalfSec(tasks[i].interval_sec)

C26_Witness ==
    \E i, j \in TaskIds :
       /\ got[i] = <<ReadResult("ok")>> /\ Len(got[i][1]) = 2
       /\ sent[i] = <<[readings |-> got[i][1]]>>
       /\ reads[j] = 1 /\ got[j] = <<<<>>>> /\ sent[j] = <<>>
       /\ tasks[j].next_run = now + HalfSec(tasks[j].interval_sec)

(***************************************************************************)
(* Progress of the polling loop.                                           *)
(***************************************************************************)
\* The loop has just passed task i and has read its sensor
JustPolled(i) == pcA = "loop" /\ idx = i + 1 /\ reads[i] = 1

\* C27: every configured task is polled again and again: from every state
\* in which task i exists, a later state has just read its sensor, whatever
\* the intervals of the tasks are and whichever reads and posts fail.
C27_EveryTaskPolledForever ==
    \A i \in 1..MaxTasks : (i \in TaskIds) ~> JustPolled(i)

\* Some read or post has failed, and in a later tick (the first task is
\* not due) the second task has just been polled.
C27_Witness ==
    /\ failedEver
    /\ Len(tasks) = 2
    /\ reads[1] = 0
    /\ JustPolled(2)

(***************************************************************************)
(* Properties of the normalisation of timestamps.                          *)
(***************************************************************************)
\* The instant a reading is to be stored at
StoredInstant(entry) ==
    IF entry.reading.recorded_at.kind = "none" THEN entry.utc_now
    ELSE InstantOf(entry.reading.recorded_at)

\* The rows the request that has just ended added to the store
AddedRows == measurements (-) pre.measurements

\* The instant a bound of a range query denotes, if the bound is given
BoundInstant(v) == IF v.kind = "iso" THEN <<InstantOf(v)>> ELSE <<>>

\* C28: timestamps are stored as UTC instants. After an ingestion request
\* answered 200, every reading of the request has a row at the instant its
\* recorded_at denotes (offset subtracted; no offset: taken as UTC; absent:
\* the server's current time), so readings that differ only in how
\* recorded_at writes one instant are stored as equal rows; a range
\* query without a limit answers with the rows between the instants its
\* bounds denote; and whenever a request may arrive, a bound written with
\* an offset selects the same rows as the same instant written without.
C28_TimestampsNormalizedToUtc ==
    /\ (IngestDone /\ resp.status = 200) =>
         /\ \A i \in 1..Len(batch) :
              \E row \in BagToSet(AddedRows) :
                 /\ row.recorded_at = StoredInstant(batch[i])
                 /\ row.metric = batch[i].reading.metric
                 /\ sensors[row.sensor_id].key = batch[i].reading.sensor_key
         /\ \A i, j \in 1..Len(batch) :
              (/\ i < j
               /\ StoredInstant(batch[i]) = StoredInstant(batch[j])
               /\ [batch[i].reading EXCEPT !.recorded_at = NoTime]
                    = [batch[j].reading EXCEPT !.recorded_at = NoTime]) =>
                \E row \in BagToSet(AddedRows) :
                   /\ CopiesIn(row, AddedRows) >= 2
                   /\ row.recorded_at = StoredInstant(batch[i])
    /\ (/\ RangeDone /\ resp.status = 200
        /\ resp.query.limit = NoneVal) =>
         SeqToBag(resp.measurements)
           = StoredWithin(resp.query.sensor_key, resp.query.metric,
                          BoundInstant(resp.query.start),
                          BoundInstant(resp.query.end))
    /\ pcB = "idle" =>
         \A k \in Keys, m \in Metrics, t \in Times :
           /\ QueryResults(sensors, measurements,
                           [Unbounded(k, m, "asc") EXCEPT
                              !.start = Offset(t + 1, 1)])
                = QueryResults(sensors, measurements,
                               [Unbounded(k, m, "asc") EXCEPT
                                  !.start = Naive(t)])
           /\ QueryResults(sensors, measurements,
                           [Unbounded(k, m, "asc") EXCEPT
                              !.end = Offset(t + 1, 1)])
                = QueryResults(sensors, measurements,
                               [Unbounded(k, m, "asc") EXCEPT
                                  !.end = Naive(t)])

\* One request brought the same reading at 02:00 without an offset and at
\* 03:00+01:00, and the store gained two equal rows at 02:00 UTC.
C28_Witness ==
    /\ IngestDone /\ resp.status = 200
    /\ Len(batch) = 2
    /\ batch[1].reading.recorded_at = Naive(2)
    /\ batch[2].reading.recorded_at = Offset(3, 1)
    /\ \E row \in BagToSet(AddedRows) :
          CopiesIn(row, AddedRows) = 2 /\ row.recorded_at = 2

(***************************************************************************)
(* Properties of what the requests other than ingestion leave alone.       *)
(***************************************************************************)
ReadOnlyRequests ==
    {"get_measurements", "get_summary", "get_sensors", "get_alerts",
     "post_alerts"}

\* C29: only ingestion adds sensors or readings: a step that changes table
\* sensors or table measurements is the end of a POST /api/measurements, and
\* the range query, the summary, the sensor listing and both alert requests
\* leave both tables as they were, also when the range query names a key
\* that no sensor has.
C29_OnlyIngestionWrites ==
    [][/\ (sensors' # sensors \/ measurements' # measurements) =>
            (pcB' = "done" /\ resp'.req = "post_measurements")
       /\ (pcB' = "done" /\ resp'.req \in ReadOnlyRequests) =>
            (sensors' = sensors /\ measurements' = measurements)]_vars

\* A range query for a key that no sensor has was answered while the store
\* held readings, and no sensor has the key afterwards.
C29_Witness ==
    /\ RangeDone /\ resp.status = 200
    /\ measurements # EmptyBag
    /\ SensorIdOf(sensors, resp.query.sensor_key) = 0
    /\ Tables(sensors, measurements) = pre

(***************************************************************************)
(* Properties of a storage failure inside an ingestion request.            *)
(***************************************************************************)
\* The request brought a reading whose INSERT the store refuses: its value
\* is NaN while every check of normalize_reading passes.
RefusedByStore(reading) ==
    /\ reading.json = "object"
    /\ ~Falsy(reading.sensor_key) /\ ~Falsy(reading.metric)
    /\ reading.unit # NoneVal
    /\ reading.value = "nan"
    /\ reading.recorded_at.kind \in {"none", "empty", "iso"}

StorageFailed ==
    /\ IngestDone
    /\ \E i \in 1..Len(batch) : RefusedByStore(batch[i].reading)

Malformed(reading) ==
    \/ reading.json # "object"
    \/ reading.sensor_key = NoneVal \/ reading.metric = NoneVal
    \/ reading.value = NoneVal \/ reading.unit = NoneVal
    \/ reading.value = "abc"
    \/ reading.recorded_at.kind \in {"bad", "number"}

\* C31: a request whose records before the last are well-formed and whose
\* last record is malformed (no JSON object, a required field missing, or
\* a recorded_at that is present and is no ISO-8601 string, a number
\* included) is answered with a 4xx status.
C31_MalformedRecordIs4xx ==
    (/\ IngestDone
     /\ batch # <<>>
     /\ \A i \in 1..(Len(batch) - 1) : WellFormed(batch[i].reading)
     /\ Malformed(batch[Len(batch)].reading)) =>
       resp.status \in 400..499

(***************************************************************************)
(* Properties of the alert rules.                                          *)
(***************************************************************************)
AlertsPosted == pcB' = "done" /\ resp'.req = "post_alerts"

\* A JSON object that lacks metric, channel or target, or whose min_value
\* or max_value is given and is no number
InvalidAlert(payload) ==
    /\ payload.json = "object"
    /\ \/ Falsy(payload.metric) \/ Falsy(payload.channel)
       \/ Falsy(payload.target)
       \/ payload.min_value = "abc" \/ payload.max_value = "abc"

ValidAlert(payload) == payload.json = "object" /\ ~InvalidAlert(payload)

\* The alert as a listing shows it, but for its id
ListedAlert(payload) ==
    [metric |-> payload.metric, channel |-> payload.channel,
     target |-> payload.target, enabled |-> payload.enabled,
     min_value |-> IF payload.min_value = NoneVal THEN <<>>
                   ELSE <<Finite(IF payload.min_value = "0" THEN 0 ELSE 5)>>,
     max_value |-> IF payload.max_value = NoneVal THEN <<>>
                   ELSE <<Finite(IF payload.max_value = "0" THEN 0 ELSE 5)>>]

IntroducedBy(reading) ==
    [name |-> IF reading.sensor_name \in {NoneVal, ""}
              THEN (IF reading.sensor_key = "new_dev" THEN "New Dev"
                    ELSE "Amb")
              ELSE reading.sensor_name,
     model |-> reading.sensor_model,
     location |-> reading.sensor_location,
     poll_interval_sec |-> IF reading.poll_interval_sec \in {<<>>, <<0>>}
                           THEN 60 ELSE reading.poll_interval_sec[1]]

MetadataOf(sensor) ==
    [name |-> sensor.name, model |-> sensor.model,
     location |-> sensor.location,
     poll_interval_sec |-> sensor.poll_interval_sec]

\* C33: a sensor's metadata is fixed by the reading that introduces it:
\* after an ingestion request, every sensor that existed before (seeded or
\* created by an earlier request) is as it was, and every sensor the
\* request created has the name, model, location and poll_interval_sec of
\* the first reading of the batch with its key, whatever metadata the
\* later readings of the key carry.
C33_MetadataFixedByFirstReading ==
    IngestDone =>
      /\ Len(pre.sensors) <= Len(sensors)
      /\ \A i \in 1..Len(pre.sensors) : sensors[i] = pre.sensors[i]
      /\ \A i \in (Len(pre.sensors) + 1)..Len(sensors) :
           MetadataOf(sensors[i]) = IntroducedBy(FirstOf(sensors[i].key))

\* One batch introduced new_dev without metadata and then named it
\* "Basking" with interval 30: the sensor is "New Dev" with interval 60.
C33_Witness ==
    /\ IngestDone /\ resp.status = 200
    /\ Len(batch) = 2
    /\ batch[1].reading.sensor_key = "new_dev"
    /\ batch[1].reading.sensor_name = NoneVal
    /\ batch[2].reading.sensor_key = "new_dev"
    /\ batch[2].reading.sensor_name = "Basking"
    /\ batch[2].reading.poll_interval_sec = <<30>>
    /\ Len(sensors) = Len(pre.sensors) + 1
    /\ sensors[Len(sensors)].name = "New Dev"
    /\ sensors[Len(sensors)].poll_interval_sec = 60

(***************************************************************************)
(* Properties of the sleep between two ticks.                              *)
(***************************************************************************)
\* The earliest next_run of the tasks
MinNextRun == SeqMin([i \in TaskIds |-> tasks[i].next_run])

\* C34: the loop does not wake early. With tasks configured, the sleep
\* computed at the end of a tick ends no earlier than the least next_run
\* of the tasks, however long the other intervals are; so every tick, the
\* first included, starts with a task due, and has read a due task when
\* it ends.
C34_NoEarlyWake ==
    [][/\ (pcA = "loop" /\ pcA' = "top" /\ Len(tasks) > 0) =>
            /\ clock + sleep_for' >= MinNextRun
            /\ clock' >= clock + sleep_for'
            /\ clock' >= MinNextRun
       /\ (pcA' = "loop" /\ Len(tasks') > 0) =>
            /\ \E i \in 1..Len(tasks') : dueAt'[i]
            /\ idx' > Len(tasks') => \E i \in 1..Len(tasks') : reads'[i] = 1
      ]_vars

\* In a later tick of two tasks one is due and the other, with the longer
\* interval, is not, after a sleep longer than the floor.
C34_Witness ==
    /\ EndOfTick
    /\ tickNo >= 2
    /\ Len(tasks) = 2
    /\ sleep_for > SleepFloor
    /\ \E i, j \in TaskIds :
          /\ tasks[i].interval_sec < tasks[j].interval_sec
          /\ dueAt[i] /\ reads[i] = 1
          /\ ~dueAt[j] /\ reads[j] = 0

(***************************************************************************)
(* Properties of the distance between two polls of a task.                 *)
(***************************************************************************)
\* C35: a task is never polled before its next_run, and two consecutive
\* polls of a task are at least its interval apart, measured between the
\* starts of the ticks that make them, whichever reads and posts are slow
\* or fail.
C35_PollsAtLeastIntervalApart ==
    [][\A i \in TaskIds :
         (pcA = "loop" /\ polls'[i] = polls[i] + 1) =>
           /\ now >= tasks[i].next_run
           /\ lastPoll'[i] = now
           /\ lastPoll[i] # -1 =>
                lastPoll'[i] - lastPoll[i] >= HalfSec(tasks[i].interval_sec)
      ]_vars

\* A task with a positive interval has been polled a second time, exactly
\* at its next_run, after some read or post had failed.
C35_Witness ==
    /\ pcA = "loop"
    /\ failedEver
    /\ \E i \in TaskIds :
          /\ tasks[i].interval_sec > 0
          /\ polls[i] >= 2 /\ reads[i] = 1
          /\ lastPoll[i] = now
          /\ prevRun[i] = now

(***************************************************************************)
(* Properties of the sensors' keys.                                        *)
(***************************************************************************)
\* C36: no two sensors share a key, in every state that requests served
\* one after the other or at the same time reach, requests that bring an
\* unseen key at the same time and batches that repeat an unseen key
\* included.
C36_SensorKeysUnique ==
    \A i, j \in 1..Len(sensors) :
       sensors[i].key = sensors[j].key => i = j

\* Two requests brought the unseen key new_dev at the same time, one of
\* them twice in its batch; both have ended and one sensor has the key.
C36_Witness ==
    /\ BothDone
    /\ BothIntroduce("new_dev")
    /\ \E p \in Requests :
          /\ Len(reqs[p].readings) = 2
          /\ reqs[p].readings[1].sensor_key = "new_dev"
          /\ reqs[p].readings[2].sensor_key = "new_dev"
          /\ reqs[p].status = 200
    /\ \E p \in Requests : reqs[p].status = 500
    /\ Cardinality({i \in 1..Len(sensors) : sensors[i].key = "new_dev"}) = 1

(***************************************************************************)
(* Properties of the shape of the summary.                                 *)
(***************************************************************************)
\* The first scanned row of key k and metric m
FirstScanned(k, m) ==
    resp.scanned[CHOOSE i \in ScannedOfPair(k, m) :
                   \A j \in ScannedOfPair(k, m) : i <= j]

\* C37: the summary is well-formed for every list of rows the scan read: no
\* two entries have one key, every entry lists a metric, no entry lists a
\* metric twice, and every listed metric shows the value, unit and
\* recorded_at of the first scanned row of its key and metric (of rows with
\* equal recorded_at, the one the scan read first).
C37_SummaryWellFormed ==
    SummaryDone =>
      /\ \A i, j \in 1..Len(resp.summary) :
           resp.summary[i].key = resp.summary[j].key => i = j
      /\ \A i \in 1..Len(resp.summary) :
           LET entry == resp.summary[i]
           IN  /\ Len(entry.metrics) >= 1
               /\ \A a, b \in 1..Len(entry.metrics) :
                    entry.metrics[a].metric = entry.metrics[b].metric
                      => a = b
               /\ \A a \in 1..Len(entry.metrics) :
                    LET e == entry.metrics[a]
                    IN  /\ ScannedOfPair(entry.key, e.metric) # {}
                        /\ LET row == FirstScanned(entry.key, e.metric)
                           IN  /\ e.value = row.value
                               /\ e.unit = row.unit
                               /\ e.recorded_at = row.recorded_at

\* The scan read two rows of one key and metric with equal recorded_at and
\* different values, and the summary shows the value of the first.
C37_Witness ==
    /\ SummaryDone
    /\ Len(resp.scanned) >= 2
    /\ resp.scanned[1].sensor_id = resp.scanned[2].sensor_id
    /\ resp.scanned[1].metric = resp.scanned[2].metric
    /\ resp.scanned[1].recorded_at = resp.scanned[2].recorded_at
    /\ resp.scanned[1].value # resp.scanned[2].value
    /\ Len(resp.summary) = 1
    /\ Len(resp.summary[1].metrics) = 1
    /\ resp.summary[1].metrics[1].value = resp.scanned[1].value

=========================================================================
